---- MODULE Spec2Model ----
(***************************************************************************)
(* A model of the filterables library: the type registry (types.py), the   *)
(* filter compiler and the filter-set binder (filters.py), the FastAPI     *)
(* dependency (deps.py) and the path resolver (__init__.py).               *)
(*                                                                         *)
(* Python values are records [kind, n, s]: kind is the exact Python type   *)
(* ("bool", "int", "float", "str", "NoneType"), n the numeric value (1/0   *)
(* for True/False) and s the text.  SQL expressions are records tagged by  *)
(* the field t, as SQLAlchemy builds them; a raised exception is the       *)
(* record [t |-> "raise", exc |-> <class>].  Strings that the code splits  *)
(* or joins are sequences of tokens (names, ".", "$" and the double        *)
(* quote).  Compiled predicates are evaluated as SQLite evaluates them,    *)
(* the engine of tests/conftest.py.                                        *)
(***************************************************************************)
EXTENDS Integers, Sequences, FiniteSets, TLC

VARIABLES dialect, column, children, filter, clause, row, verdict,
          leaf, parsed, http,
          document, table, query, result,
          caller, paginator, pagination, instance, subclasses

vars == <<dialect, column, children, filter, clause, row, verdict,
          leaf, parsed, http, document, table, query, result,
          caller, paginator, pagination, instance, subclasses>>

\* ------------------------------------------------------------------ bounds

\* Longest child path below a root field ("a.k.j" has two children).
MaxDepth == 2
\* Longest $in / $nin list.
MaxList == 2
\* Most keys in one raw filter leaf.
MaxKeys == 2
\* Most entries in one filter document.
MaxEntries == 2
\* Most rows in the table.
MaxRows == 2

\* ----------------------------------------------------------- Python values

PyBool(b) == [kind |-> "bool", n |-> IF b THEN 1 ELSE 0, s |-> ""]
PyInt(i) == [kind |-> "int", n |-> i, s |-> ""]
PyFloat(i) == [kind |-> "float", n |-> i, s |-> ""]
PyStr(x) == [kind |-> "str", n |-> 0, s |-> x]
PyNone == [kind |-> "NoneType", n |-> 0, s |-> ""]

\* isinstance(value, cls) for the primitive classes: bool subclasses int.
isinstance(value, cls) ==
    \/ value.kind = cls
    \/ cls = "int" /\ value.kind = "bool"

Raise(exc) == [t |-> "raise", exc |-> exc]
Return(v) == [t |-> "return", v |-> v]
IsRaise(x) == x.t = "raise"

\* ----------------------------------------------------------- type registry

Dialects == {"sqlite", "mariadb", "mysql", "postgresql", "mssql", "oracle"}

AnyBool == {"Boolean"}
AnyDate == {"Date", "DateTime", "Interval", "Time", "TIMESTAMP"}
AnyFloat == {"DECIMAL", "Double", "Float", "Numeric", "REAL"}
AnyInteger == {"BigInteger", "Integer", "SmallInteger"}
AnyJson == {"JSON", "JSONB", "NestableType"}
AnyNumber == AnyInteger \cup AnyFloat
AnyString == AnyDate \cup {"AutoString", "CHAR", "CLOB", "String", "Text", "VARCHAR"}
AnyThing == AnyBool \cup AnyDate \cup AnyInteger \cup AnyFloat \cup AnyNumber \cup AnyString

get_column_type_for_value(value) ==
    IF isinstance(value, "bool") THEN Return(AnyBool)
    ELSE IF isinstance(value, "float") THEN Return(AnyFloat)
    ELSE IF isinstance(value, "int") THEN Return(AnyInteger)
    ELSE IF isinstance(value, "str") THEN Return(AnyString)
    ELSE Raise("Exception")

SqliteTypes == [bool |-> <<"true", "false">>, float |-> <<"real">>,
                int |-> <<"integer">>, str |-> <<"text">>]
MysqlTypes == [bool |-> <<"BOOLEAN">>, float |-> <<"DOUBLE">>,
               int |-> <<"INTEGER">>, str |-> <<"STRING">>]
PostgresTypes == [bool |-> <<"boolean">>, float |-> <<"number">>,
                  int |-> <<"number">>, str |-> <<"string">>]

\* The registry; a bare string of the source is the one-element list that
\* get_json_type_for_value makes of it.
_json_types == [sqlite |-> SqliteTypes, mariadb |-> MysqlTypes, mysql |-> MysqlTypes,
                postgresql |-> PostgresTypes, mssql |-> PostgresTypes,
                oracle |-> PostgresTypes]

\* The same with bool taken for the int it subclasses.
get_json_type_for_value_Subclass(dialct, value) ==
    IF /\ dialct.kind = "str"
       /\ dialct.s \in DOMAIN _json_types
       /\ value.kind \in DOMAIN _json_types[dialct.s]
    THEN Return(_json_types[dialct.s][IF value.kind = "bool" THEN "int" ELSE value.kind])
    ELSE Raise("ValueError")

\* dict.get(key) finds a string key only for an equal str: both arguments
\* are Python values, whatever the caller passes in either position.
get_json_type_for_value(dialct, value) ==
    IF /\ dialct.kind = "str"
       /\ dialct.s \in DOMAIN _json_types
       /\ value.kind \in DOMAIN _json_types[dialct.s]
    THEN Return(_json_types[dialct.s][value.kind])
    ELSE Raise("ValueError")

\* ------------------------------------------------------- SQL expressions

literal(b) == [t |-> "literal", v |-> b]
text(x) == [t |-> "text", s |-> x]
Bind(value) == [t |-> "bind", v |-> value]
PathBind(tokens) == [t |-> "path", tokens |-> tokens]
func(name, args) == [t |-> "func", name |-> name, args |-> args]
Not(x) == [t |-> "not", x |-> x]
and_(a, b) == [t |-> "and", a |-> a, b |-> b]
Cmp(op, l, r) == [t |-> "cmp", op |-> op, l |-> l, r |-> r]
in_(x, xs) == [t |-> "in", x |-> x, xs |-> xs]
like(x, pattern) == [t |-> "like", x |-> x, pattern |-> pattern]
is_(x) == [t |-> "is_null", x |-> x]
case(when, then, else_) == [t |-> "case", when |-> when, then |-> then, else_ |-> else_]

\* A mapped column of the model class; any other class attribute (a method)
\* has no .type and none of the column operators.
Column(name, type) == [t |-> "column", name |-> name, type |-> type]
Method(name) == [t |-> "method", name |-> name]
IsColumn(x) == x.t = "column"

\* ~x: the negation of a raised call is the raise itself.
Invert(x) == IF IsRaise(x) THEN x ELSE Not(x)

\* ------------------------------------------------------ filter compiler

\* A parsed Filter: cls is the class, value the tuple of its validated
\* fields (FilterBetween: lower then upper; the list of FilterIn and
\* FilterNotIn; the one value of every other class).
Filter(cls, value) == [cls |-> cls, value |-> value]
lower(self) == self.value[1]
upper(self) == self.value[2]

Quote == "\""

RECURSIVE join(_, _)
\* sep.join(parts), over token sequences.
join(sep, parts) ==
    IF Len(parts) = 0 THEN << >>
    ELSE IF Len(parts) = 1 THEN <<parts[1]>>
    ELSE <<parts[1]>> \o sep \o join(sep, Tail(parts))

ListBind(items) == [t |-> "list", items |-> items]

get_child_ref(col, chldrn, dialct) ==
    IF dialct = "postgresql" THEN ListBind(chldrn)
    ELSE PathBind(<<"$", ".", Quote>> \o join(<<Quote, ".", Quote>>, chldrn) \o <<Quote>>)

\* A function call over something that is no SQL element is refused by
\* SQLAlchemy's argument coercion.
Call(name, col, args) ==
    IF IsColumn(col) THEN func(name, <<col>> \o args) ELSE Raise("ArgumentError")

\* isinstance(column, JSON): a column reference is never a type object.
get_value_ref(col, chldrn, dialct) ==
    IF Len(chldrn) = 0 THEN col
    ELSE LET path == get_child_ref(col, chldrn, dialct) IN
         IF dialct = "postgresql"
         THEN Call(IF col.t = "JSON" THEN "json_extract_path" ELSE "jsonb_extract_path",
                   col, <<path>>)
         ELSE IF dialct \in {"mssql", "oracle"} THEN Call("JSON_VALUE", col, <<path>>)
         ELSE Call("json_extract", col, <<path>>)

None == [t |-> "None"]

\* filters.py:574 passes (comparable, dialect) to get_json_type_for_value,
\* whose parameters are (dialect, value).
get_value_types(col, chldrn, dialct, comparable) ==
    LET value == get_value_ref(col, chldrn, dialct) IN
    IF IsRaise(value) THEN value
    ELSE IF Len(chldrn) = 0 THEN [t |-> "return", value |-> value, typing |-> None]
    ELSE LET typed == IF dialct = "sqlite"
                      THEN func("json_type", <<col, get_child_ref(col, chldrn, dialct)>>)
                      ELSE IF dialct = "postgresql"
                      THEN func(IF col.t = "JSON" THEN "json_typeof" ELSE "jsonb_typeof",
                                <<value>>)
                      ELSE func("JSON_TYPE", <<value>>)
             unquoted == IF dialct \notin {"sqlite", "postgresql"} /\ isinstance(comparable, "str")
                         THEN func("json_unquote", <<value>>) ELSE value
             tokens == get_json_type_for_value(comparable, PyStr(dialct))
         IN  IF IsRaise(tokens) THEN tokens
             ELSE [t |-> "return", value |-> unquoted,
                   typing |-> in_(typed, [i \in 1..Len(tokens.v) |-> Bind(PyStr(tokens.v[i]))])]

\* The pre-check without the "or len(children) > 0" escape.
is_column_type_RootOnly(col, chldrn, comparable) ==
    IF ~IsColumn(col) THEN Raise("AttributeError")
    ELSE LET types == get_column_type_for_value(comparable) IN
         IF IsRaise(types) THEN types
         ELSE Return(col.type \in types.v)

\* column.type is read first: an attribute that is no column has none.
is_column_type(col, chldrn, comparable) ==
    IF ~IsColumn(col) THEN Raise("AttributeError")
    ELSE LET types == get_column_type_for_value(comparable) IN
         IF IsRaise(types) THEN types
         ELSE Return(col.type \in types.v \/ Len(chldrn) > 0)

\* The caster closure: identity, CAST(v AS to) or TRIM(CAST(v AS Text), '"').
create_caster(col, chldrn, dialct, comparable) ==
    IF dialct # "postgresql" THEN [fn |-> "identity", to |-> ""]
    ELSE IF isinstance(comparable, "bool") THEN [fn |-> "cast", to |-> "Boolean"]
    ELSE IF isinstance(comparable, "float") THEN [fn |-> "cast", to |-> "Float"]
    ELSE IF isinstance(comparable, "int") THEN [fn |-> "cast", to |-> "Integer"]
    ELSE IF isinstance(comparable, "str") THEN [fn |-> "trim", to |-> "Text"]
    ELSE IF col.type \in AnyJson
    THEN [fn |-> "cast", to |-> IF col.type = "JSON" THEN "JSON" ELSE "JSONB"]
    ELSE [fn |-> "identity", to |-> ""]

\* casting(value): the closure applied to a SQL element or a bound value.
Cast(casting, value) ==
    IF casting.fn = "identity" THEN value
    ELSE IF casting.fn = "cast" THEN func("cast", <<value, text(casting.to)>>)
    ELSE func("trim", <<func("cast", <<value, text(casting.to)>>), text(Quote)>>)

create_guard(typing, condition) ==
    IF typing.t # "None" THEN case(typing, condition, text("FALSE")) ELSE condition

\* The lambda each Filter class hands to create_chain, applied to (value, cast).
Condition(self, value, cast) ==
    IF self.cls = "FilterBetween"
    THEN and_(Cmp(">", value, Cast(cast, Bind(lower(self)))),
              Cmp("<", value, Cast(cast, Bind(upper(self)))))
    ELSE IF self.cls = "FilterEquals" THEN Cmp("=", value, Cast(cast, Bind(self.value[1])))
    ELSE IF self.cls = "FilterGreaterThan" THEN Cmp(">", value, Cast(cast, Bind(self.value[1])))
    ELSE IF self.cls = "FilterLessThan" THEN Cmp("<", value, Cast(cast, Bind(self.value[1])))
    ELSE IF self.cls = "FilterIn"
    THEN in_(value, [i \in 1..Len(self.value) |-> Cast(cast, Bind(self.value[i]))])
    ELSE like(value, Cast(cast, Bind(self.value[1])))

create_chain(col, chldrn, dialct, comparable, condition) ==
    LET compatible == is_column_type(col, chldrn, comparable) IN
    IF IsRaise(compatible) THEN compatible
    ELSE IF ~compatible.v THEN literal(FALSE)
    ELSE LET types == get_value_types(col, chldrn, dialct, comparable) IN
         IF IsRaise(types) THEN types
         ELSE LET casting == create_caster(col, chldrn, dialct, comparable)
                  updated == Condition(condition, Cast(casting, types.value), casting)
              IN  create_guard(types.typing, updated)

\* FilterHas.create: value.is_(None) needs a SQL element; match is compared
\* with the extracted value itself (value != match).
FilterHas_create(self, col, chldrn, dialct) ==
    LET path == get_child_ref(col, chldrn, dialct)
        value == get_value_ref(col, chldrn, dialct)
    IN  IF IsRaise(value) THEN value
        ELSE IF ~IsColumn(col) THEN Raise("AttributeError")
        ELSE LET match == IF dialct = "sqlite"
                          THEN Cmp("=", func("json_type", <<col, path>>), Bind(PyStr("null")))
                          ELSE IF dialct = "postgresql"
                          THEN Cmp("=", func("jsonb_typeof", <<value>>), Bind(PyStr("null")))
                          ELSE IF dialct \in {"mariadb", "mysql"}
                          THEN Cmp("=", func("json_type", <<value>>), Bind(PyStr("NULL")))
                          ELSE Bind(PyStr("null"))
                 check == IF Len(chldrn) > 0
                          THEN and_(Not(is_(value)), Cmp("!=", value, match))
                          ELSE Not(is_(value))
             IN  IF self.value[1].n = 1 THEN check ELSE Not(check)

\* FilterIn.create reads self.value[0] before it calls create_chain.
FilterIn_create(self, col, chldrn, dialct) ==
    IF Len(self.value) = 0 THEN Raise("IndexError")
    ELSE create_chain(col, chldrn, dialct, self.value[1], self)

\* self.create(column, children, dialect) of each Filter class; FilterBetween
\* hands create_chain its lower bound, value[1].
create(self, col, chldrn, dialct) ==
    IF self.cls = "FilterHas" THEN FilterHas_create(self, col, chldrn, dialct)
    ELSE IF self.cls = "FilterIn" THEN FilterIn_create(self, col, chldrn, dialct)
    ELSE IF self.cls = "FilterNotEquals"
    THEN Invert(create_chain(col, chldrn, dialct, self.value[1],
                             Filter("FilterEquals", self.value)))
    ELSE IF self.cls = "FilterNotIn"
    THEN Invert(FilterIn_create(Filter("FilterIn", self.value), col, chldrn, dialct))
    ELSE IF self.cls = "FilterUnlike"
    THEN Invert(create_chain(col, chldrn, dialct, self.value[1],
                             Filter("FilterLike", self.value)))
    ELSE create_chain(col, chldrn, dialct, self.value[1], self)

\* ------------------------------------------------------ rows and SQLite

\* A cell of a row: a SQL value [t, n, s, doc].  t is the storage class
\* ("null", "integer", "real", "text"), "json" for text holding a JSON
\* object, whose scalar members doc lists as [path, jt, n, s] (jt the JSON
\* type, path the keys from the root), or "error" for a failed statement.
Null == [t |-> "null", n |-> 0, s |-> "", doc |-> {}]
Integer(i) == [t |-> "integer", n |-> i, s |-> "", doc |-> {}]
Real(i) == [t |-> "real", n |-> i, s |-> "", doc |-> {}]
Text(x) == [t |-> "text", n |-> 0, s |-> x, doc |-> {}]
Json(doc) == [t |-> "json", n |-> 0, s |-> "", doc |-> doc]
Error(x) == [t |-> "error", n |-> 0, s |-> x, doc |-> {}]
Member(path, jt, n, x) == [path |-> path, jt |-> jt, n |-> n, s |-> x]

\* A bound Python value as the driver hands it to SQLite.
ToSql(value) ==
    IF value.kind \in {"bool", "int"} THEN Integer(value.n)
    ELSE IF value.kind = "float" THEN Real(value.n)
    ELSE IF value.kind = "str" THEN Text(value.s)
    ELSE Null

\* SQLite's truth value of v: "null", or whether its numeric value is not 0
\* (text that is no number counts as 0).
Truth(v) ==
    IF v.t = "null" THEN "null"
    ELSE IF v.t \in {"integer", "real"} /\ v.n # 0 THEN "true"
    ELSE "false"

Boolean(b) == Integer(IF b THEN 1 ELSE 0)
IsError(v) == v.t = "error"
IsNumeric(v) == v.t \in {"integer", "real"}

\* Comparison by storage class: NULL compares to nothing, a number sorts
\* before any text, numbers compare by value and text by content.
Compare(op, a, b) ==
    IF IsError(a) THEN a
    ELSE IF IsError(b) THEN b
    ELSE IF a.t = "null" \/ b.t = "null" THEN Null
    ELSE IF IsNumeric(a) /\ IsNumeric(b)
    THEN Boolean(CASE op = "=" -> a.n = b.n
                   [] op = "!=" -> a.n # b.n
                   [] op = "<" -> a.n < b.n
                   [] op = ">" -> a.n > b.n)
    ELSE IF IsNumeric(a) THEN Boolean(op \in {"!=", "<"})
    ELSE IF IsNumeric(b) THEN Boolean(op \in {"!=", ">"})
    ELSE IF op = "=" THEN Boolean(a.s = b.s /\ a.doc = b.doc)
    ELSE IF op = "!=" THEN Boolean(~(a.s = b.s /\ a.doc = b.doc))
    ELSE IF a.s = b.s /\ a.doc = b.doc THEN Boolean(FALSE)
    ELSE Error("collation order of two texts")

LogicalNot(v) ==
    IF IsError(v) THEN v
    ELSE IF Truth(v) = "null" THEN Null
    ELSE Boolean(Truth(v) = "false")

LogicalAnd(a, b) ==
    IF IsError(a) THEN a
    ELSE IF IsError(b) THEN b
    ELSE IF Truth(a) = "false" \/ Truth(b) = "false" THEN Boolean(FALSE)
    ELSE IF Truth(a) = "null" \/ Truth(b) = "null" THEN Null
    ELSE Boolean(TRUE)

\* x LIKE pattern: "%" matches any text, any other pattern here has no
\* wildcard and matches itself.
Like(x, pattern) ==
    IF IsError(x) THEN x
    ELSE IF IsError(pattern) THEN pattern
    ELSE IF x.t = "null" \/ pattern.t = "null" THEN Null
    ELSE Boolean(pattern.s = "%" \/ (x.t = "text" /\ x.s = pattern.s))

\* x IN (items), over evaluated items.
In(x, items) ==
    IF IsError(x) THEN x
    ELSE IF \E i \in 1..Len(items) : IsError(items[i])
    THEN items[CHOOSE i \in 1..Len(items) : IsError(items[i])]
    ELSE IF Len(items) = 0 THEN Boolean(FALSE)
    ELSE IF x.t = "null" THEN Null
    ELSE IF \E i \in 1..Len(items) : Truth(Compare("=", x, items[i])) = "true"
    THEN Boolean(TRUE)
    ELSE IF \E i \in 1..Len(items) : items[i].t = "null" THEN Null
    ELSE Boolean(FALSE)

FirstQuote(ts) ==
    IF \E i \in 1..Len(ts) : ts[i] = Quote
    THEN CHOOSE i \in 1..Len(ts) : ts[i] = Quote /\ \A j \in 1..(i - 1) : ts[j] # Quote
    ELSE 0

RECURSIVE PathSteps(_)
\* The steps of a JSON path after its "$": each ."label" is one step, the
\* label running to the next double quote.
PathSteps(ts) ==
    IF Len(ts) = 0 THEN [ok |-> TRUE, steps |-> << >>]
    ELSE IF Len(ts) >= 3 /\ ts[1] = "." /\ ts[2] = Quote
    THEN LET rest == SubSeq(ts, 3, Len(ts))
             q == FirstQuote(rest)
         IN  IF q = 0 THEN [ok |-> FALSE, steps |-> << >>]
             ELSE LET more == PathSteps(SubSeq(rest, q + 1, Len(rest)))
                  IN  [ok |-> more.ok, steps |-> <<SubSeq(rest, 1, q - 1)>> \o more.steps]
    ELSE [ok |-> FALSE, steps |-> << >>]

ParsePath(ts) ==
    IF Len(ts) >= 1 /\ ts[1] = "$" THEN PathSteps(Tail(ts))
    ELSE [ok |-> FALSE, steps |-> << >>]

AtSteps(path, steps) ==
    Len(path) = Len(steps) /\ \A i \in 1..Len(steps) : steps[i] = <<path[i]>>
BelowSteps(path, steps) ==
    Len(path) > Len(steps) /\ \A i \in 1..Len(steps) : steps[i] = <<path[i]>>

\* json_type(X, P): NULL for a NULL X or a path that selects nothing, an
\* error for text that is no JSON or a malformed path.
json_type(x, path) ==
    LET p == ParsePath(path.tokens) IN
    IF IsError(x) THEN x
    ELSE IF x.t = "null" THEN Null
    ELSE IF x.t = "text" THEN Error("malformed JSON")
    ELSE IF ~p.ok THEN Error("bad JSON path")
    ELSE IF IsNumeric(x) THEN IF Len(p.steps) = 0 THEN Text(x.t) ELSE Null
    ELSE IF \E m \in x.doc : AtSteps(m.path, p.steps)
    THEN Text((CHOOSE m \in x.doc : AtSteps(m.path, p.steps)).jt)
    ELSE IF Len(p.steps) = 0 \/ \E m \in x.doc : BelowSteps(m.path, p.steps)
    THEN Text("object")
    ELSE Null

\* json_extract(X, P): the SQL value of the selected member; JSON null is
\* NULL, true and false are 1 and 0, an object is its JSON text.
json_extract(x, path) ==
    LET p == ParsePath(path.tokens) IN
    IF IsError(x) THEN x
    ELSE IF x.t = "null" THEN Null
    ELSE IF x.t = "text" THEN Error("malformed JSON")
    ELSE IF ~p.ok THEN Error("bad JSON path")
    ELSE IF IsNumeric(x) THEN IF Len(p.steps) = 0 THEN x ELSE Null
    ELSE IF \E m \in x.doc : AtSteps(m.path, p.steps)
    THEN LET m == CHOOSE m \in x.doc : AtSteps(m.path, p.steps) IN
         CASE m.jt = "null" -> Null
           [] m.jt = "true" -> Integer(1)
           [] m.jt = "false" -> Integer(0)
           [] m.jt = "integer" -> Integer(m.n)
           [] m.jt = "real" -> Real(m.n)
           [] OTHER -> Text(m.s)
    ELSE IF Len(p.steps) = 0 THEN x
    ELSE IF \E m \in x.doc : BelowSteps(m.path, p.steps)
    THEN Json({Member(SubSeq(m.path, Len(p.steps) + 1, Len(m.path)), m.jt, m.n, m.s) :
               m \in {m \in x.doc : BelowSteps(m.path, p.steps)}})
    ELSE Null

RECURSIVE Eval(_, _)
\* The value of SQL expression e on row r (a function from column names
\* to cells), as SQLite computes it.
Eval(e, r) ==
    CASE e.t = "column" -> r[e.name]
      [] e.t = "literal" -> Boolean(e.v)
      [] e.t = "text" -> IF e.s = "FALSE" THEN Boolean(FALSE) ELSE Text(e.s)
      [] e.t = "bind" -> ToSql(e.v)
      [] e.t = "not" -> LogicalNot(Eval(e.x, r))
      [] e.t = "and" -> LogicalAnd(Eval(e.a, r), Eval(e.b, r))
      [] e.t = "cmp" -> Compare(e.op, Eval(e.l, r), Eval(e.r, r))
      [] e.t = "is_null" -> LET v == Eval(e.x, r) IN
                            IF IsError(v) THEN v ELSE Boolean(v.t = "null")
      [] e.t = "like" -> Like(Eval(e.x, r), Eval(e.pattern, r))
      [] e.t = "in" -> In(Eval(e.x, r), [i \in 1..Len(e.xs) |-> Eval(e.xs[i], r)])
      [] e.t = "case" -> LET w == Eval(e.when, r) IN
                         IF IsError(w) THEN w
                         ELSE IF Truth(w) = "true" THEN Eval(e.then, r)
                         ELSE Eval(e.else_, r)
      [] e.t = "func" /\ e.name = "json_extract" -> json_extract(Eval(e.args[1], r), e.args[2])
      [] e.t = "func" /\ e.name = "json_type" /\ Len(e.args) = 2 ->
             json_type(Eval(e.args[1], r), e.args[2])
      [] OTHER -> Error("no such function")

\* Whether the WHERE clause e selects row r: only a true value does.
Selects(e, r) == Truth(Eval(e, r)) = "true"

\* ------------------------------------------------- the compiler at work

ColumnTypes == AnyThing \cup AnyJson

Segments == <<"k", "j", "i", "h">>
\* The child paths tried: none, "k", "k.j", ... up to MaxDepth segments.
ChildPaths == {SubSeq(Segments, 1, d) : d \in 0..MaxDepth}

Strings == {"a", "%", "sqlite"}
Numbers == {PyInt(0), PyInt(1), PyFloat(1)}
Comparables == {PyBool(TRUE), PyBool(FALSE)} \cup Numbers \cup {PyStr(x) : x \in Strings}

\* Lists of one kind, as the list[str] | list[int] | list[float] |
\* list[bool] annotation of FilterIn.value holds them.
Lists ==
    UNION {[1..len -> {c \in Comparables : c.kind = kind}] :
           len \in 0..MaxList, kind \in {"bool", "int", "float", "str"}}

\* The Filter objects that parsing yields (see model_validate below).
ParsedFilters ==
    {Filter(cls, <<c>>) : cls \in {"FilterEquals", "FilterNotEquals"}, c \in Comparables}
    \cup {Filter(cls, <<c>>) : cls \in {"FilterGreaterThan", "FilterLessThan"}, c \in Numbers}
    \cup {Filter("FilterBetween", <<a, b>>) : a \in Numbers, b \in Numbers}
    \cup {Filter(cls, l) : cls \in {"FilterIn", "FilterNotIn"}, l \in Lists}
    \cup {Filter(cls, <<PyStr(x)>>) : cls \in {"FilterLike", "FilterUnlike"}, x \in Strings}
    \cup {Filter("FilterHas", <<PyBool(b)>>) : b \in BOOLEAN}

JsonScalars ==
    {Member(<< >>, "null", 0, ""), Member(<< >>, "true", 0, ""), Member(<< >>, "false", 0, ""),
     Member(<< >>, "integer", 0, ""), Member(<< >>, "integer", 1, ""),
     Member(<< >>, "real", 1, ""), Member(<< >>, "text", 0, "a")}

\* JSON objects with at most one scalar member, at any child path.
Documents ==
    {{}} \cup {{Member(p, m.jt, m.n, m.s)} : m \in JsonScalars, p \in ChildPaths \ {<< >>}}

\* The values a column of the declared type can hold.
Cells(type) ==
    IF type \in AnyJson THEN {Null} \cup {Json(d) : d \in Documents}
    ELSE IF type \in AnyBool \cup AnyInteger THEN {Null, Integer(0), Integer(1)}
    ELSE IF type \in AnyFloat THEN {Null, Real(0), Real(1)}
    ELSE {Null, Text("a"), Text("b")}

Unset == [t |-> "None"]

CompilerIdle ==
    /\ leaf = Unset /\ parsed = Unset /\ http = 0
    /\ document = << >> /\ table = {} /\ query = Unset /\ result = Unset
    /\ caller = Unset

\* A Sorter subclass: its name, what priority() returns, and for an extension
\* the sort tokens it returns a statement for.  SimpleSorter is the one
\* subclass the package defines.
SimpleSorter == [name |-> "SimpleSorter", priority |-> 999, handles |-> {}]

PagerIdle == paginator = Unset /\ pagination = Unset /\ instance = Unset

Init ==
    /\ subclasses = <<SimpleSorter>>
    /\ dialect \in Dialects
    /\ column = Unset /\ children = << >> /\ filter = Unset
    /\ clause = Unset /\ row = Unset /\ verdict = Unset
    /\ CompilerIdle /\ PagerIdle

\* Filters.bind line 270 for one entry: filter.create(column, children, dialect),
\* over every parsed filter, declared column type and child path.
Create ==
    /\ clause = Unset
    /\ \E f \in ParsedFilters, type \in ColumnTypes, chldrn \in ChildPaths :
           /\ column' = Column("field", type) /\ children' = chldrn /\ filter' = f
           /\ clause' = create(f, column', chldrn, dialect)
    /\ UNCHANGED <<subclasses, caller, paginator, pagination, instance,
                   dialect, row, verdict, leaf, parsed, http, document, table, query, result>>

\* session.exec of the compiled clause over one row of the SQLite table.
Evaluate ==
    /\ dialect = "sqlite"
    /\ clause # Unset /\ ~IsRaise(clause)
    /\ verdict = Unset
    /\ \E cell \in Cells(column.type) :
           /\ row' = [c \in {column.name} |-> cell]
           /\ verdict' = Eval(clause, row')
    /\ UNCHANGED <<subclasses, caller, paginator, pagination, instance,
                   dialect, column, children, filter, clause,
                   leaf, parsed, http, document, table, query, result>>

Next == Create \/ Evaluate

Spec == Init /\ [][Next]_vars

\* ------------------------------------------------- claims on the compiler

Compiled == clause # Unset
Evaluated == verdict # Unset
Nested == Len(children) > 0
Negated == {"FilterNotEquals", "FilterNotIn", "FilterUnlike"}

\* The filter has a comparable, whose kind is that of its first value.
HasKind(f) == f.cls # "FilterHas" /\ Len(f.value) > 0
KindOf(f) == f.value[1].kind

\* The column-type table of the registry, by kind, as the specification
\* states it (section 4.1).
ColumnTypesFor(kind) ==
    CASE kind = "bool" -> {"Boolean"}
      [] kind = "float" -> {"DECIMAL", "Double", "Float", "Numeric", "REAL"}
      [] kind = "int" -> {"BigInteger", "Integer", "SmallInteger"}
      [] kind = "str" -> {"Date", "DateTime", "Interval", "Time", "TIMESTAMP",
                          "AutoString", "CHAR", "CLOB", "String", "Text", "VARCHAR"}

\* The JSON-type tokens SQLite reports for a kind (section 4.1).
SqliteTokensFor(kind) ==
    CASE kind = "bool" -> {"true", "false"}
      [] kind = "float" -> {"real"}
      [] kind = "int" -> {"integer"}
      [] kind = "str" -> {"text"}

\* The JSON type SQLite reports at the filter's path in the evaluated row.
TypeAtPath == json_type(row[column.name], get_child_ref(column, children, dialect))

\* What create_chain returned: a negated class wraps it in one NOT.
ChainResult ==
    IF filter.cls \in Negated /\ clause.t = "not" THEN clause.x ELSE clause

\* C1: compiling any well-formed leaf over any path succeeds, and evaluating
\* the compiled predicate against any row never raises.
C1_Totality ==
    /\ Compiled => ~IsRaise(clause)
    /\ Evaluated => ~IsError(verdict)

\* C2: a leaf of kind K over a nested path evaluates FALSE on a row whose
\* value there is missing or of a JSON type not registered for K.
C2_TypeSafety ==
    (Compiled /\ Nested /\ HasKind(filter)) =>
        /\ ~IsRaise(clause)
        /\ (Evaluated /\ column.type \in AnyJson
            /\ ~(TypeAtPath.t = "text" /\ TypeAtPath.s \in SqliteTokensFor(KindOf(filter))))
           => Truth(verdict) = "false"

\* C3: on a root path with a column type outside the kind's column-type set
\* create_chain returns the bare literal FALSE; on a path with children it
\* never returns that short circuit.
C3_PreCheck ==
    (Compiled /\ HasKind(filter)) =>
        /\ (~Nested /\ column.type \notin ColumnTypesFor(KindOf(filter)))
           => ChainResult = literal(FALSE)
        /\ Nested => ChainResult # literal(FALSE)

C3_Witness ==
    /\ Compiled /\ ~Nested
    /\ filter = Filter("FilterEquals", <<PyInt(1)>>)
    /\ column.type = "AutoString"
    /\ clause = literal(FALSE)

\* The positive filter of a negated one: same argument, same path.
Positive(f) ==
    Filter(CASE f.cls = "FilterNotEquals" -> "FilterEquals"
             [] f.cls = "FilterNotIn" -> "FilterIn"
             [] f.cls = "FilterUnlike" -> "FilterLike", f.value)

\* The row passes the type guard: no guard on a root path, a JSON type
\* registered for the kind on a nested one.
PassesGuard ==
    \/ ~Nested
    \/ TypeAtPath.t = "text" /\ TypeAtPath.s \in SqliteTokensFor(KindOf(filter))

\* C4: $ne/$eq, $nin/$in and $unlike/$like with the same path and argument
\* both compile, and on every row that passes the type guard exactly one of
\* the two matches.
C4_DeMorgan ==
    (Compiled /\ filter.cls \in Negated /\ HasKind(filter)) =>
        /\ ~IsRaise(clause)
        /\ (Evaluated /\ PassesGuard) =>
               (Selects(clause, row) # Selects(create(Positive(filter), column, children, dialect), row))

\* C5: a negated operator whose kind is incompatible with its target matches
\* every row: a root column of another declared type, or a nested value of
\* another JSON type.
C5_NegatedIncompatible ==
    (Compiled /\ filter.cls \in Negated /\ HasKind(filter)) =>
        /\ (~Nested /\ column.type \notin ColumnTypesFor(KindOf(filter)) /\ Evaluated)
           => Truth(verdict) = "true"
        /\ Nested => ~IsRaise(clause)
        /\ (Nested /\ Evaluated /\ TypeAtPath.t = "text"
            /\ TypeAtPath.s \notin SqliteTokensFor(KindOf(filter)))
           => Truth(verdict) = "true"

\* C6: $has:true matches exactly the rows whose root column is not NULL, or
\* whose nested value is present and not JSON null; $has:false matches
\* exactly the other rows.
C6_Has ==
    (Evaluated /\ filter.cls = "FilterHas" /\ (Nested => column.type \in AnyJson)) =>
        LET present == IF Nested
                       THEN TypeAtPath.t = "text" /\ TypeAtPath.s # "null"
                       ELSE row[column.name].t # "null"
        IN  Selects(clause, row) = (present = (filter.value[1].n = 1))

\* ------------------------------------------------- parsing a filter leaf
\*
\* Filters is a pydantic RootModel over dict[str, Union[Filter subclasses]]
\* (filters.py line 222).  A JSON leaf is a dict from keys to JSON values; a
\* JSON value is a scalar [kind, n, s] or a list of scalars.

List(items) == [kind |-> "list", n |-> 0, s |-> "", items |-> items]
Scalar(v) == [kind |-> v.kind, n |-> v.n, s |-> v.s, items |-> << >>]
Value(v) == [kind |-> v.kind, n |-> v.n, s |-> v.s]
Dict(items) == [t |-> "dict", items |-> items]

\* Field(alias=...) of every Filter subclass, in Filter.__subclasses__() order.
Classes ==
    <<"FilterBetween", "FilterEquals", "FilterGreaterThan", "FilterHas", "FilterIn",
      "FilterLike", "FilterLessThan", "FilterNotEquals", "FilterNotIn", "FilterUnlike">>

Aliases(cls) ==
    CASE cls = "FilterBetween" -> <<"$gt", "$lt">>
      [] cls = "FilterEquals" -> <<"$eq">>
      [] cls = "FilterGreaterThan" -> <<"$gt">>
      [] cls = "FilterHas" -> <<"$has">>
      [] cls = "FilterIn" -> <<"$in">>
      [] cls = "FilterLike" -> <<"$like">>
      [] cls = "FilterLessThan" -> <<"$lt">>
      [] cls = "FilterNotEquals" -> <<"$ne">>
      [] cls = "FilterNotIn" -> <<"$nin">>
      [] OTHER -> <<"$unlike">>

\* The annotation of the fields of a class: the members of its union, in
\* order, and whether each member is a list of that type.
Annotation(cls) ==
    CASE cls \in {"FilterBetween", "FilterGreaterThan", "FilterLessThan"} ->
             [list |-> FALSE, types |-> <<"int", "float">>]
      [] cls \in {"FilterEquals", "FilterNotEquals"} ->
             [list |-> FALSE, types |-> <<"str", "int", "float", "bool">>]
      [] cls = "FilterHas" -> [list |-> FALSE, types |-> <<"bool">>]
      [] cls \in {"FilterIn", "FilterNotIn"} ->
             [list |-> TRUE, types |-> <<"str", "int", "float", "bool">>]
      [] OTHER -> [list |-> FALSE, types |-> <<"str">>]

\* The strings pydantic reads as a number, and the number read.
NumericStrings == {"0", "1"}
NumberOf(s) == IF s = "1" THEN 1 ELSE 0

\* pydantic's validation of one scalar against one type.  Strict mode takes
\* the type itself (and an int for a float); lax mode also coerces bools,
\* whole floats and numeric strings to numbers, and 0, 1, "0", "1" to bools.
Coerce(type, v, strict) ==
    LET fail == Raise("ValidationError")
        number == v.kind \in {"int", "float", "bool"}
        numeric == v.kind = "str" /\ v.s \in NumericStrings
    IN  CASE type = "str" -> IF v.kind = "str" THEN Return(PyStr(v.s)) ELSE fail
          [] type = "int" ->
                 IF v.kind = "int" THEN Return(PyInt(v.n))
                 ELSE IF strict THEN fail
                 ELSE IF number THEN Return(PyInt(v.n))
                 ELSE IF numeric THEN Return(PyInt(NumberOf(v.s)))
                 ELSE fail
          [] type = "float" ->
                 IF v.kind \in {"float", "int"} THEN Return(PyFloat(v.n))
                 ELSE IF strict THEN fail
                 ELSE IF number THEN Return(PyFloat(v.n))
                 ELSE IF numeric THEN Return(PyFloat(NumberOf(v.s)))
                 ELSE fail
          [] OTHER ->
                 IF v.kind = "bool" THEN Return(PyBool(v.n = 1))
                 ELSE IF strict THEN fail
                 ELSE IF number /\ v.n \in {0, 1} THEN Return(PyBool(v.n = 1))
                 ELSE IF numeric THEN Return(PyBool(NumberOf(v.s) = 1))
                 ELSE fail

\* A list whose elements are each validated against any of the types, as
\* list[str | int | float | bool] would be.
validate_list_PerElement(type, v, strict) ==
    IF v.kind # "list" THEN Raise("ValidationError")
    ELSE LET each(i) == CHOOSE r \in {Coerce(t, v.items[i], strict) :
                                        t \in {"str", "int", "float", "bool"}} :
                            \A q \in {Coerce(t, v.items[i], strict) :
                                        t \in {"str", "int", "float", "bool"}} :
                                IsRaise(r) => IsRaise(q)
         IN  IF \E i \in 1..Len(v.items) : IsRaise(each(i)) THEN Raise("ValidationError")
             ELSE Return([i \in 1..Len(v.items) |-> each(i).v])

\* One member list[type] of the union of FilterIn.value: the value is a list
\* and every element validates against the same type.
validate_list(type, v, strict) ==
    IF v.kind # "list" THEN Raise("ValidationError")
    ELSE LET each(i) == Coerce(type, v.items[i], strict)
         IN  IF \E i \in 1..Len(v.items) : IsRaise(each(i)) THEN Raise("ValidationError")
             ELSE Return([i \in 1..Len(v.items) |-> each(i).v])

\* One member of a field's union.
validate_member(list, type, v, strict) ==
    IF list THEN validate_list(type, v, strict)
    ELSE IF v.kind = "list" THEN Raise("ValidationError")
    ELSE Coerce(type, Value(v), strict)

\* A union in pydantic's smart mode: the first member that takes the value
\* strictly, else (outside strict mode) the first that takes it laxly.
validate_union(ann, v, strict) ==
    LET member(i, st) == validate_member(ann.list, ann.types[i], v, st)
        takes(st) == {i \in 1..Len(ann.types) : ~IsRaise(member(i, st))}
        first(S) == CHOOSE i \in S : \A j \in S : i <= j
    IN  IF takes(TRUE) # {} THEN member(first(takes(TRUE)), TRUE)
        ELSE IF ~strict /\ takes(FALSE) # {} THEN member(first(takes(FALSE)), FALSE)
        ELSE Raise("ValidationError")

\* A Filter subclass without extra="forbid": keys that are no alias of the
\* class are ignored.
validate_model_IgnoreExtra(cls, items, strict) ==
    LET aliases == Aliases(cls)
        field(i) == validate_union(Annotation(cls), items[aliases[i]], strict)
    IN  IF ~({aliases[i] : i \in 1..Len(aliases)} \subseteq DOMAIN items)
        THEN Raise("ValidationError")
        ELSE IF \E i \in 1..Len(aliases) : IsRaise(field(i)) THEN Raise("ValidationError")
        ELSE IF Annotation(cls).list THEN Return(Filter(cls, field(1).v))
        ELSE Return(Filter(cls, [i \in 1..Len(aliases) |-> field(i).v]))

\* One Filter subclass: every aliased field is present, extra="forbid" admits
\* no other key (the field names themselves are not accepted either), and
\* every value validates against its annotation.
validate_model(cls, items, strict) ==
    LET aliases == Aliases(cls)
        field(i) == validate_union(Annotation(cls), items[aliases[i]], strict)
    IN  IF DOMAIN items # {aliases[i] : i \in 1..Len(aliases)}
        THEN Raise("ValidationError")
        ELSE IF \E i \in 1..Len(aliases) : IsRaise(field(i)) THEN Raise("ValidationError")
        ELSE IF Annotation(cls).list THEN Return(Filter(cls, field(1).v))
        ELSE Return(Filter(cls, [i \in 1..Len(aliases) |-> field(i).v]))

\* Filters.model_validate_json for one leaf: the union over the subclasses.
model_validate(items) ==
    LET takes(st) == {i \in 1..Len(Classes) : ~IsRaise(validate_model(Classes[i], items, st))}
        first(S) == CHOOSE i \in S : \A j \in S : i <= j
    IN  IF takes(TRUE) # {} THEN validate_model(Classes[first(takes(TRUE))], items, TRUE)
        ELSE IF takes(FALSE) # {} THEN validate_model(Classes[first(takes(FALSE))], items, FALSE)
        ELSE Raise("ValidationError")

\* deps.filters: a ValidationError becomes an HTTPException with status 422.
HTTPException(status_code) == [t |-> "raise", exc |-> "HTTPException", status_code |-> status_code]

filters(items) ==
    LET validated == model_validate(items)
    IN  IF IsRaise(validated) THEN HTTPException(422) ELSE validated

\* The leaves submitted: up to MaxKeys keys out of the nine operator keys and
\* one unknown key, each with a scalar or a list of up to MaxList scalars.
Keys == {"$eq", "$ne", "$gt", "$lt", "$in", "$nin", "$like", "$unlike", "$has", "$regex"}
KeySets == {K \in SUBSET Keys : Cardinality(K) <= MaxKeys}

JsonNull == [kind |-> "NoneType", n |-> 0, s |-> ""]
RawScalars == {PyBool(TRUE), PyInt(1), PyInt(2), PyFloat(1), PyStr("a"), PyStr("1"), JsonNull}
RawElements == {PyInt(1), PyFloat(1), PyStr("a")}
RawLists == UNION {[1..len -> RawElements] : len \in 0..MaxList}
ListKeys == {"$in", "$nin"}
\* A list key is given a list or one scalar, any other key a scalar or one list.
ListValues == {List(l) : l \in RawLists} \cup {Scalar(PyInt(1))}
ScalarValues == {Scalar(v) : v \in RawScalars} \cup {List(<<PyInt(1)>>)}
\* The columns of the Person model of tests/conftest.py.
PersonColumns ==
    {Column("age", "Integer"), Column("name", "AutoString"), Column("loose", "NestableType")}

InitParse ==
    /\ subclasses = <<SimpleSorter>>
    /\ dialect = "sqlite"
    /\ column = Unset /\ children = << >> /\ filter = Unset
    /\ clause = Unset /\ row = Unset /\ verdict = Unset
    /\ CompilerIdle /\ PagerIdle

\* A request whose filter document has one leaf reaches deps.filters.
Request ==
    /\ leaf = Unset
    /\ \E K \in KeySets :
       \E l \in [K \cap ListKeys -> ListValues], v \in [K \ ListKeys -> ScalarValues] :
           /\ leaf' = Dict([key \in K |-> IF key \in ListKeys THEN l[key] ELSE v[key]])
           /\ parsed' = filters(leaf'.items)
           /\ http' = IF IsRaise(parsed') THEN parsed'.status_code ELSE http
    /\ UNCHANGED <<subclasses, caller, paginator, pagination, instance,
                   dialect, column, children, filter, clause, row, verdict,
                   document, table, query, result>>

\* The parsed leaf is compiled against a column of the model (Filters.bind
\* line 270).
CreateParsed ==
    /\ parsed # Unset /\ ~IsRaise(parsed)
    /\ clause = Unset
    /\ \E col \in PersonColumns, chldrn \in ChildPaths :
           /\ column' = col /\ children' = chldrn /\ filter' = parsed.v
           /\ clause' = create(filter', col, chldrn, dialect)
    /\ UNCHANGED <<subclasses, caller, paginator, pagination, instance,
                   dialect, row, verdict, leaf, parsed, http, document, table, query, result>>

NextParse == Request \/ CreateParsed
SpecParse == InitParse /\ [][NextParse]_vars

\* ------------------------------------------------- claims on parsing

Received == leaf # Unset
Rejected == IsRaise(parsed) /\ parsed.exc = "HTTPException" /\ http = 422
OperatorKeys == Keys \ {"$regex"}

\* The key sets of the operator table (section 6.1): one operator key, or
\* $gt together with $lt.
ValidKeySet(K) == (Cardinality(K) = 1 /\ K \subseteq OperatorKeys) \/ K = {"$gt", "$lt"}

\* The class the operator table gives a valid key set.
ClassOf(K) ==
    CHOOSE cls \in {Classes[i] : i \in 1..Len(Classes)} :
        K = {Aliases(cls)[i] : i \in 1..Len(Aliases(cls))}

\* The argument type the operator table states for a key.
WellTyped(key, v) ==
    CASE key \in {"$eq", "$ne"} -> v.kind \in {"str", "int", "float", "bool"}
      [] key \in {"$gt", "$lt"} -> v.kind \in {"int", "float"}
      [] key \in {"$like", "$unlike"} -> v.kind = "str"
      [] key = "$has" -> v.kind = "bool"
      [] key \in {"$in", "$nin"} ->
             /\ v.kind = "list"
             /\ \E kinds \in {{"str"}, {"int", "float"}, {"bool"}} :
                    \A i \in 1..Len(v.items) : v.items[i].kind \in kinds
      [] OTHER -> FALSE

\* A scalar that lax validation cannot turn into the type.
NoNumber(v) == v.kind \in {"NoneType", "list"} \/ (v.kind = "str" /\ v.s \notin NumericStrings)
NoBool(v) == NoNumber(v) \/ (v.kind \in {"int", "float"} /\ v.n \notin {0, 1})

\* An argument that no type of the key's annotation can take, even laxly.
Uncoercible(key, v) ==
    CASE key \in {"$eq", "$ne"} -> v.kind \in {"NoneType", "list"}
      [] key \in {"$gt", "$lt"} -> NoNumber(v)
      [] key \in {"$like", "$unlike"} -> v.kind # "str"
      [] key = "$has" -> NoBool(v)
      [] key \in {"$in", "$nin"} ->
             \/ v.kind # "list"
             \/ \E i, j \in 1..Len(v.items) :
                    /\ v.items[i].kind # "str"
                    /\ NoNumber(v.items[j])
      [] OTHER -> TRUE

\* C7 as stated: a leaf is accepted only with a valid key set, and a leaf with
\* an invalid key set or an argument not of the operator's type is rejected
\* with a validation error surfaced as HTTP 422.
C7_WrongTypeRejected ==
    Received =>
        LET K == DOMAIN leaf.items
        IN  (~ValidKeySet(K) \/ \E key \in K : ~WellTyped(key, leaf.items[key])) => Rejected

\* C7 amended: a leaf is accepted only with a valid key set, as the class of
\* that key set; it is rejected with HTTP 422 exactly when its key set is
\* invalid or an argument cannot be coerced to the operator's type.
C7_UncoercibleRejected ==
    Received =>
        LET K == DOMAIN leaf.items
        IN  /\ ~IsRaise(parsed) => (ValidKeySet(K) /\ parsed.v.cls = ClassOf(K))
            /\ Rejected <=> (~ValidKeySet(K) \/ \E key \in K : Uncoercible(key, leaf.items[key]))
            /\ IsRaise(parsed) => Rejected

\* A leaf of two operator keys other than {$gt, $lt} is answered with 422.
C7_Witness ==
    /\ Received /\ Rejected
    /\ DOMAIN leaf.items = {"$eq", "$ne"}
    /\ \A key \in DOMAIN leaf.items : leaf.items[key] = Scalar(PyInt(1))

\* The leaf is {"$in": list} or {"$nin": list}.
ListLeaf ==
    /\ Received
    /\ \E key \in {"$in", "$nin"} : DOMAIN leaf.items = {key}
    /\ \A key \in DOMAIN leaf.items : leaf.items[key].kind = "list"
ListOf == leaf.items[CHOOSE key \in DOMAIN leaf.items : TRUE].items

RECURSIVE split(_)
split(key) ==
    IF key = << >> THEN <<"">>
    ELSE IF Head(key) = "." THEN <<"">> \o split(Tail(key))
    ELSE IF Tail(key) = << >> THEN <<Head(key)>>
    ELSE <<Head(key)>> \o split(Tail(Tail(key)))

\* The Person model of tests/conftest.py: its mapped columns, and the
\* methods it inherits from Filterable.
Person ==
    [fields |-> {Column("id", "AutoString"), Column("age", "Integer"),
                 Column("name", "AutoString"), Column("loose", "NestableType"),
                 Column("strong", "NestableType")},
     methods |-> {"has", "path", "drop", "from_query"}]

\* getattr(cls, name): a mapped column, a method, or AttributeError.
getattr(cls, name) ==
    IF \E f \in cls.fields : f.name = name
    THEN Return(CHOOSE f \in cls.fields : f.name = name)
    ELSE IF name \in cls.methods THEN Return(Method(name))
    ELSE Raise("AttributeError")

\* Filterable.path for a path without a dot, as Filters.bind calls it
\* (children[0] holds none).
path(cls, name) == getattr(cls, name)

\* A SELECT statement object: id tells the objects apart (0 is the one the
\* caller built), _filterables is the attribute Filters.bind sets.
select(model) ==
    [t |-> "select", id |-> 0, model |-> model, where |-> << >>, order_by |-> << >>,
     limit |-> None, offset |-> None, _filterables |-> None]

\* query.where(clause) is generative: a new object that copies the
\* attributes of the old one and holds one more WHERE clause.
where(stmt, bound) == [stmt EXCEPT !.id = stmt.id + 1, !.where = Append(stmt.where, bound)]

\* The Filters object that holds a document as its root.
RootModel(root) == [t |-> "Filters", root |-> root]

\* setattr(obj, name, value), on the object itself.
setattr(obj, name, value) == [obj EXCEPT ![name] = value]

\* The loop of Filters.bind: an entry whose head raises AttributeError in
\* model.path is skipped; any other entry is compiled and appended to the
\* WHERE clause; an exception of create leaves bind.  After the loop the
\* document is set on whatever object the name query then refers to.
RECURSIVE bind_from(_, _, _, _, _)
bind_from(root, i, stmt, model, dialct) ==
    IF i > Len(root) THEN Return(setattr(stmt, "_filterables", RootModel(root)))
    ELSE LET chldrn == split(root[i].key)
             col == path(model, chldrn[1])
         IN  IF IsRaise(col) THEN bind_from(root, i + 1, stmt, model, dialct)
             ELSE LET bound == create(root[i].filter, col.v, Tail(chldrn), dialct)
                  IN  IF IsRaise(bound) THEN bound
                      ELSE bind_from(root, i + 1, where(stmt, bound), model, dialct)

bind(root, stmt, dialct) == bind_from(root, 1, stmt, stmt.model, dialct)

\* The object obj once a call has returned outcome: it is the returned
\* object when the call returned obj itself, and is as before otherwise.
Afterwards(obj, outcome) ==
    IF ~IsRaise(outcome) /\ outcome.v.id = obj.id THEN outcome.v ELSE obj

\* session.exec(query).all() on SQLite: the rows every WHERE clause selects.
exec(statement, rows) ==
    IF \E r \in rows : \E i \in 1..Len(statement.where) : IsError(Eval(statement.where[i], r))
    THEN Raise("OperationalError")
    ELSE Return({r \in rows : \A i \in 1..Len(statement.where) : Selects(statement.where[i], r)})

\* The documents bound: up to MaxEntries entries with distinct keys, in the
\* order of the JSON text.
EntryKeys == {<<"age">>, <<"loose", ".", "k">>, <<"missing">>, <<"drop">>}
EntryFilters ==
    {Filter("FilterEquals", <<PyInt(1)>>), Filter("FilterNotEquals", <<PyInt(1)>>),
     Filter("FilterEquals", <<PyStr("sqlite")>>), Filter("FilterHas", <<PyBool(TRUE)>>)}
Entries == {[key |-> k, filter |-> f] : k \in EntryKeys, f \in EntryFilters}
Roots ==
    UNION {{d \in [1..len -> Entries] : \A i, j \in 1..len : d[i].key = d[j].key => i = j} :
           len \in 0..MaxEntries}

\* The tables queried: up to MaxRows rows of Person.
PersonRows ==
    {[id |-> Text("a"), age |-> Integer(age), name |-> Text("a"), loose |-> l, strong |-> Null] :
        age \in {0, 1},
        l \in {Null, Json({Member(<<"k">>, "text", 0, "sqlite")})}}
Tables == {rows \in SUBSET PersonRows : Cardinality(rows) <= MaxRows}

InitBind ==
    /\ subclasses = <<SimpleSorter>>
    /\ dialect = "sqlite"
    /\ column = Unset /\ children = << >> /\ filter = Unset
    /\ clause = Unset /\ row = Unset /\ verdict = Unset
    /\ leaf = Unset /\ parsed = Unset /\ http = 0
    /\ document = << >> /\ table \in Tables /\ query = Unset /\ result = Unset
    /\ caller = select(Person) /\ PagerIdle

\* Filters(root).bind(session, query) on the statement the caller holds.
BindDocument ==
    /\ query = Unset
    /\ \E root \in Roots :
           /\ document' = root
           /\ query' = bind(root, caller, dialect)
           /\ caller' = Afterwards(caller, query')
    /\ UNCHANGED <<subclasses, paginator, pagination, instance,
                   dialect, column, children, filter, clause, row, verdict,
                   leaf, parsed, http, table, result>>

\* session.exec of the bound statement.
Exec ==
    /\ query # Unset /\ ~IsRaise(query)
    /\ result = Unset
    /\ result' = exec(query.v, table)
    /\ UNCHANGED <<subclasses, caller, paginator, pagination, instance,
                   dialect, column, children, filter, clause, row, verdict,
                   leaf, parsed, http, document, table, query>>

NextBind == BindDocument \/ Exec
SpecBind == InitBind /\ [][NextBind]_vars

\* ------------------------------------------------- claims on binding

Bound == query # Unset
Executed == result # Unset

\* The head segment of an entry names a field of the model.
HeadIsField(entry) == \E f \in Person.fields : f.name = split(entry.key)[1]

\* C9: an entry whose head names no field of the model is omitted: bind
\* raises nothing for it, adds no predicate for it and binds the other
\* entries as if it were absent; a document of such entries only leaves the
\* matched rows those of the table.
C9_UnknownHeadOmitted ==
    Bound =>
        LET others == bind(SelectSeq(document, HeadIsField), select(Person), dialect)
        IN  /\ IsRaise(query) => (IsRaise(others) /\ others = query)
            /\ ~IsRaise(query) => (~IsRaise(others) /\ others.v.where = query.v.where)
            /\ (Executed /\ SelectSeq(document, HeadIsField) = << >>) => result = Return(table)

\* The orders in which the entries of the document can be written.
Orders ==
    LET n == Len(document)
    IN  {[i \in 1..n |-> document[p[i]]] :
            p \in {q \in [1..n -> 1..n] : \A i, j \in 1..n : q[i] = q[j] => i = j}}

\* The rows that the predicate of one entry alone matches.
MatchedAlone(entry) ==
    LET alone == bind(<<entry>>, select(Person), dialect)
    IN  IF IsRaise(alone) THEN {}
        ELSE LET rows == exec(alone.v, table) IN IF IsRaise(rows) THEN {} ELSE rows.v

\* C10: in whatever order the entries of a document are written, binding it
\* yields a statement whose matched rows are those that each entry's
\* predicate matches alone.
C10_OrderIndependent ==
    Bound =>
        \A root \in Orders :
            LET statement == bind(root, select(Person), dialect)
            IN  /\ ~IsRaise(statement)
                /\ exec(statement.v, table) =
                       Return({r \in table : \A i \in 1..Len(document) : r \in MatchedAlone(document[i])})

\* C11: bind leaves the statement the caller supplied as it was, its WHERE
\* clause and its attributes alike, whatever the document; the document is
\* carried by the returned statement only.
C11_CallerUntouched ==
    Bound =>
        /\ caller = select(Person)
        /\ ~IsRaise(query) => (query.v._filterables = RootModel(document) /\ query.v.id # caller.id)

\* ------------------------------------------------- sorting a statement
\*
\* A sort token is a string such as "name:desc"; it is held as the sequence
\* of its pieces: names, ":" and " ".

\* value.split(":", 1): the pieces before the first ":" and, when there is
\* one, the pieces after it.
split_once(value, sep) ==
    IF \E i \in 1..Len(value) : value[i] = sep
    THEN LET at == CHOOSE i \in 1..Len(value) :
                       value[i] = sep /\ \A j \in 1..(i - 1) : value[j] # sep
         IN  <<SubSeq(value, 1, at - 1), SubSeq(value, at + 1, Len(value))>>
    ELSE <<value>>

\* str.lower(), piece by piece.
lower_case(value) ==
    [i \in 1..Len(value) |-> CASE value[i] = "DESC" -> "desc"
                               [] value[i] = "ASC" -> "asc"
                               [] OTHER -> value[i]]

\* The one name a string consists of; a string of no piece or of several
\* pieces is the name of no attribute.
identifier(value) == IF Len(value) = 1 THEN value[1] ELSE ""

ValueError(args) == [t |-> "raise", exc |-> "ValueError", args |-> args]

\* An enumeration that falls back to ascending for an unknown value.
Direction_Ascending(value) ==
    IF value = <<"desc">> THEN Return("desc") ELSE Return("asc")

\* Direction(value): the enumeration member of that value, or ValueError
\* ("'<value>' is not a valid Direction").
Direction(value) ==
    IF value = <<"asc">> \/ value = <<"desc">> THEN Return(value[1]) ELSE ValueError(value)

\* SimpleSorter.split: the direction is parsed before the field is resolved.
SimpleSorter_split(model, value) ==
    LET chunks == split_once(value, ":")
        location == chunks[1]
        direction == Direction(lower_case(IF Len(chunks) > 1 THEN chunks[2] ELSE <<"asc">>))
    IN  IF IsRaise(direction) THEN direction
        ELSE LET field == path(model, identifier(location))
             IN  IF IsRaise(field) THEN field
                 ELSE Return([field |-> field.v, direction |-> direction.v])

\* Filterable.has for a resolved field: reading .type of what is no column
\* raises AttributeError.
has(cls, field) ==
    IF ~IsColumn(field) THEN Raise("AttributeError")
    ELSE IF field.type = "NestedFilterable" THEN Return(Cmp("!=", field, text("'null'")))
    ELSE Return(Not(is_(field)))

asc(field) == [t |-> "asc", x |-> field]
desc(field) == [t |-> "desc", x |-> field]

\* query.order_by(term) is generative, as where is.
order_by(stmt, term) ==
    [stmt EXCEPT !.id = stmt.id + 1, !.order_by = Append(stmt.order_by, term)]

\* SimpleSorter.sort: an AttributeError of split returns None; any other
\* exception of split, and any exception of model.has, leaves sort.
SimpleSorter_sort(stmt, model, sorting) ==
    LET parts == SimpleSorter_split(model, sorting)
    IN  IF IsRaise(parts) THEN (IF parts.exc = "AttributeError" THEN Return(None) ELSE parts)
        ELSE LET present == has(model, parts.v.field)
                 sort == IF parts.v.direction = "desc" THEN desc(parts.v.field)
                         ELSE asc(parts.v.field)
             IN  IF IsRaise(present) THEN present
                 ELSE Return(order_by(where(stmt, present.v), sort))

\* The sort tokens tried on the Person model.
MaxSort == 3
SortTokens ==
    {<<"id">>, <<"name">>, <<"age", ":", "asc">>, <<"name", ":", "desc">>,
     <<"age", ":", "DESC">>, <<":", "desc">>, <<"missing">>, <<"drop">>,
     <<"id", ":", "id">>, <<"id", ":">>, <<"id", ":", "asc", ":", "desc">>,
     <<"missing", ":", "up">>, <<"name", " ", ":", "desc">>}

InitSort ==
    /\ subclasses = <<SimpleSorter>>
    /\ dialect = "sqlite"
    /\ column = Unset /\ children = << >> /\ filter = Unset
    /\ clause = Unset /\ row = Unset /\ verdict = Unset
    /\ leaf = Unset /\ parsed = Unset /\ http = 0
    /\ document = << >> /\ table = {} /\ query = Unset /\ result = Unset
    /\ caller = select(Person)
    /\ paginator = [sorting |-> << >>] /\ pagination = Unset /\ instance = Unset

\* query = SimpleSorter.sort(session, query, Person, sorting), as the tests
\* call it: the name is rebound to what sort returned.  paginator.sorting
\* lists the tokens given so far.
Sort ==
    /\ Len(paginator.sorting) < MaxSort
    /\ caller # None /\ ~IsRaise(caller)
    /\ \E sorting \in SortTokens :
           /\ paginator' = [sorting |-> Append(paginator.sorting, sorting)]
           /\ query' = SimpleSorter_sort(caller, Person, sorting)
           /\ caller' = IF IsRaise(query') THEN query' ELSE query'.v
    /\ UNCHANGED <<subclasses, dialect, column, children, filter, clause, row, verdict,
                   leaf, parsed, http, document, table, result, pagination, instance>>

NextSort == Sort
SpecSort == InitSort /\ [][NextSort]_vars

\* ------------------------------------------------- claims on sorting

Sorted == Len(paginator.sorting) > 0
LastToken == paginator.sorting[Len(paginator.sorting)]

\* The direction keyword of a token: what follows its first ":", if any.
HasKeyword(token) == \E i \in 1..Len(token) : token[i] = ":"
Keyword(token) == lower_case(split_once(token, ":")[2])

\* C16: a token whose direction keyword is neither asc nor desc makes sort
\* raise ValueError naming the keyword; the token is neither skipped nor
\* sorted ascending.
C16_InvalidDirection ==
    (Sorted /\ HasKeyword(LastToken) /\ Keyword(LastToken) \notin {<<"asc">>, <<"desc">>}) =>
        /\ IsRaise(query) /\ query.exc = "ValueError" /\ query.args = Keyword(LastToken)
        /\ caller = query

\* "id:id" after a valid token raises ValueError naming 'id'.
C16_Witness ==
    /\ paginator.sorting = <<<<"name">>, <<"id", ":", "id">>>>
    /\ IsRaise(query) /\ query.exc = "ValueError" /\ query.args = <<"id">>

\* The field segment of a token names a field of the model.
NamesField(token) ==
    \E f \in Person.fields : f.name = identifier(split_once(token, ":")[1])

\* C17: a token whose field segment is empty or names no field of the model
\* is skipped: sort returns None.
C17_UnknownFieldSkipped ==
    (/\ Sorted /\ ~NamesField(LastToken)
     /\ (HasKeyword(LastToken) => Keyword(LastToken) \in {<<"asc">>, <<"desc">>}))
        => query = Return(None)

\* ------------------------------------------------- excluding fields
\*
\* An instance is the record [kind, attrs]: kind is its class ("Person",
\* "PersonMetadata", "Jsonable" or "dict"), attrs its fields, extra
\* properties or keys.  Scalars are the Python values [kind, n, s].

Object(kind, attrs) == [kind |-> kind, attrs |-> attrs]
BoundMethod(name) == [kind |-> "method", n |-> 0, s |-> name]
Models == {"Person", "PersonMetadata", "Jsonable"}
TypeError == [t |-> "raise", exc |-> "TypeError"]
KeyError == [t |-> "raise", exc |-> "KeyError"]

\* hasattr(base, name): a field or extra property of a model instance, or a
\* method of Filterable; the names used are attributes of no other value.
hasattr(base, name) ==
    base.kind \in Models /\ (name \in DOMAIN base.attrs \/ name \in Person.methods)

\* getattr(base, name), where hasattr(base, name).
getattr_of(base, name) ==
    IF name \in DOMAIN base.attrs THEN base.attrs[name] ELSE BoundMethod(name)

\* name in base: a key of a dict; a substring of a str; never an item of a
\* model instance (which iterates as pairs); TypeError for a value that is
\* no container.
contains(base, name) ==
    IF base.kind = "dict" THEN Return(name \in DOMAIN base.attrs)
    ELSE IF base.kind \in Models THEN Return(FALSE)
    ELSE IF base.kind = "str" THEN Return(name = base.s)
    ELSE TypeError

\* The object at the end of a route of names from obj, and obj with that
\* object replaced.
RECURSIVE get_at(_, _)
get_at(obj, route) ==
    IF route = << >> THEN obj ELSE get_at(obj.attrs[Head(route)], Tail(route))

RECURSIVE put_at(_, _, _)
put_at(obj, route, new) ==
    IF route = << >> THEN new
    ELSE [obj EXCEPT !.attrs[Head(route)] = put_at(@, Tail(route), new)]

without(attrs, name) == [key \in DOMAIN attrs \ {name} |-> attrs[key]]

\* The walk of drop to the leaf (lines 88-95): base moves to the attribute
\* or the item that nest names, and stays where it is when there is none.
\* route is where base lies in self, when it lies in it.
RECURSIVE walk(_, _, _)
walk(base, route, nests) ==
    IF nests = << >> THEN Return([base |-> base, route |-> route])
    ELSE LET nest == Head(nests) IN
         IF hasattr(base, nest)
         THEN walk(getattr_of(base, nest), Append(route, nest), Tail(nests))
         ELSE LET item == contains(base, nest) IN
              IF IsRaise(item) THEN item
              ELSE IF ~item.v THEN walk(base, route, Tail(nests))
              ELSE IF base.kind = "str" THEN TypeError
              ELSE walk(base.attrs[nest], Append(route, nest), Tail(nests))

\* One iteration of the loop of drop (lines 74-103) for the segments of one
\* path: the instance afterwards, and the exception when the iteration throws.
Dropped(self, exc) == [self |-> self, exc |-> exc]

\* setattr(self, name, None) on a model: a field is set; a name that is a
\* method and no field is refused by the model.
set_none(self, name) ==
    IF name \in DOMAIN self.attrs
    THEN Dropped([self EXCEPT !.attrs[name] = PyNone], None)
    ELSE Dropped(self, ValueError(<<name>>))

\* Lines 98-103: a key is deleted from a dict, a property from a Jsonable,
\* and any other base is left alone.
delete(self, base, route, last) ==
    IF base.kind = "dict"
    THEN IF last \in DOMAIN base.attrs
         THEN Dropped(put_at(self, route, Object("dict", without(base.attrs, last))), None)
         ELSE Dropped(self, KeyError)
    ELSE IF base.kind = "Jsonable"
    THEN IF last \in DOMAIN base.attrs
         THEN Dropped(put_at(self, route, Object("Jsonable", without(base.attrs, last))), None)
         ELSE Dropped(self, Raise("AttributeError"))
    ELSE Dropped(self, None)

drop_path(self, segments) ==
    IF ~hasattr(self, segments[1]) THEN Dropped(self, None)
    ELSE IF Len(segments) = 1 THEN set_none(self, segments[1])
    ELSE LET end == walk(self, << >>, SubSeq(segments, 1, Len(segments) - 1)) IN
         IF IsRaise(end) THEN Dropped(self, leaf)
         ELSE delete(self, end.v.base, end.v.route, segments[Len(segments)])

\* Filterable.drop(paths): the paths in turn, each split on "."; self is
\* changed in place, so what the paths before a throwing one did remains.
RECURSIVE drop_from(_, _, _)
drop_from(self, paths, i) ==
    IF i > Len(paths) THEN Dropped(self, None)
    ELSE LET one == drop_path(self, split(paths[i])) IN
         IF one.exc # None THEN one ELSE drop_from(one.self, paths, i + 1)

drop(self, paths) == drop_from(self, paths, 1)

MaxPaths == 2

\* Person instances as a session loads them: loose is a Jsonable holding the
\* stored properties (a nested object stays a dict), strong a PersonMetadata.
Metadata ==
    Object("PersonMetadata",
           [email |-> PyStr("e"), latitude |-> PyFloat(0),
            longitude |-> PyFloat(0), registered |-> PyBool(TRUE)])
LooseAttrs ==
    {[key \in {} |-> PyNone],
     [a |-> PyInt(1)],
     [a |-> PyInt(1), d |-> Object("dict", [b |-> PyInt(1)])],
     [a |-> PyInt(1), d |-> Object("dict", [b |-> PyInt(1), c |-> PyNone])]}
Instances ==
    {Object("Person", [id |-> PyStr("a"), age |-> PyInt(1), name |-> PyStr("n"),
                       loose |-> Object("Jsonable", l), strong |-> Metadata]) :
        l \in LooseAttrs}

ExcludePaths ==
    {<<"name">>, <<"strong">>, <<"loose">>, <<"missing">>,
     <<"loose", ".", "a">>, <<"loose", ".", "z">>,
     <<"loose", ".", "d", ".", "b">>, <<"loose", ".", "d", ".", "z">>,
     <<"loose", ".", "x", ".", "a">>, <<"strong", ".", "email">>,
     <<"missing", ".", "a">>, <<"age", ".", "x", ".", "y">>}

InitDrop ==
    /\ subclasses = <<SimpleSorter>>
    /\ dialect = "sqlite"
    /\ column = Unset /\ children = << >> /\ filter = Unset
    /\ clause = Unset /\ row = Unset /\ verdict = Unset
    /\ CompilerIdle
    /\ paginator = Unset /\ pagination = Unset
    /\ instance \in Instances

\* instance.drop(excludes): instance is changed in place; result is what the
\* call returned (the instance) or raised.
Drop ==
    /\ paginator = Unset
    /\ \E n \in 0..MaxPaths : \E excludes \in [1..n -> ExcludePaths] :
           LET dropped == drop(instance, excludes) IN
           /\ paginator' = [excludes |-> excludes]
           /\ instance' = dropped.self
           /\ result' = IF dropped.exc # None THEN dropped.exc ELSE Return(dropped.self)
    /\ UNCHANGED <<subclasses, dialect, column, children, filter, clause, row, verdict, leaf,
                   parsed, http, document, table, query, caller, pagination>>

NextDrop == Drop
SpecDrop == InitDrop /\ [][NextDrop]_vars

\* ------------------------------------------------- claims on excluding

Excluded == paginator # Unset /\ result # Unset
ExcludedOnly(excluded) == Excluded /\ paginator.excludes = <<excluded>>

\* C19: after excluding the one path parent.leaf, the leaf is no key of an
\* open nested record and is None in a strict nested record.
C19_NestedLeafGone ==
    \A parent \in {"loose", "strong"} : \A name \in {"a", "email"} :
        ExcludedOnly(<<parent, ".", name>>) =>
            LET nested == instance.attrs[parent] IN
            IF nested.kind = "Jsonable" THEN name \notin DOMAIN nested.attrs
            ELSE name \in DOMAIN nested.attrs => nested.attrs[name] = PyNone

\* C20: excluding never raises, whatever the paths name.
C20_NeverRaises == Excluded => ~IsRaise(result)

\* C20: a path with an intermediate segment that does not exist leaves the
\* instance as it was.
C20_MissingSegmentIgnored ==
    [][\A l \in LooseAttrs :
         (instance.attrs.loose.attrs = l /\ ExcludedOnly(<<"loose", ".", "x", ".", "a">>)')
             => instance'.attrs.loose.attrs = l]_vars

\* ------------------------------------------------------------ pagination

\* _strip_whitespace: the pieces of a string that are no white space.
IsSpace(piece) == piece = " "
strip_whitespace(value) == SelectSeq(value, LAMBDA piece : ~IsSpace(piece))

\* Paginator(limit, offset, sorting, excludes): plain values are kept, and
\* every sort token loses its white space.
Paginator(lim, off, sorting, excludes) ==
    [limit |-> lim, offset |-> off,
     sorting |-> [i \in 1..Len(sorting) |-> strip_whitespace(sorting[i])],
     excludes |-> excludes]

\* Paginator(): the defaults of the query parameters.
DefaultSorting == <<<<"_pk">>>>

\* query.limit(n) and query.offset(n) are generative, as where is.
limit(stmt, n) == [stmt EXCEPT !.id = stmt.id + 1, !.limit = Bind(PyInt(n))]
offset(stmt, n) == [stmt EXCEPT !.id = stmt.id + 1, !.offset = Bind(PyInt(n))]

\* Filterable.from_query: the Filterable class among the selected entities.
from_query(stmt) ==
    IF stmt.model = Person THEN Return(Person)
    ELSE ValueError(<<"Unable to determine Filterable query model">>)

\* inspect(model).primary_key[0].name for Person.
primary_key(model) == "id"

\* BINARY collation of the one-letter texts stored.
Alphabet == <<"a", "b", "c", "e", "m", "n">>
Collate(x) == IF \E i \in 1..Len(Alphabet) : Alphabet[i] = x
              THEN CHOOSE i \in 1..Len(Alphabet) : Alphabet[i] = x ELSE 0

\* ORDER BY compares by storage class: NULL first, then numbers by value,
\* then text by collation.  -1, 0 or 1 as a sorts before, with or after b;
\* two JSON texts are left in either order.
StorageClass(v) == IF v.t = "null" THEN 0 ELSE IF IsNumeric(v) THEN 1 ELSE 2
Sign(i) == IF i < 0 THEN -1 ELSE IF i > 0 THEN 1 ELSE 0
Collation(a, b) ==
    IF StorageClass(a) # StorageClass(b) THEN Sign(StorageClass(a) - StorageClass(b))
    ELSE IF IsNumeric(a) THEN Sign(a.n - b.n)
    ELSE IF a.t = "text" /\ b.t = "text" THEN Sign(Collate(a.s) - Collate(b.s))
    ELSE 0

\* The order of two rows under the ORDER BY terms from the i-th on.
RECURSIVE Ordering(_, _, _, _)
Ordering(terms, i, r1, r2) ==
    IF i > Len(terms) THEN 0
    ELSE LET c == Collation(r1[terms[i].x.name], r2[terms[i].x.name])
             d == IF terms[i].t = "desc" THEN -c ELSE c
         IN  IF d # 0 THEN d ELSE Ordering(terms, i + 1, r1, r2)

\* The sequences in which the database may return the rows: each row once,
\* none before a row that the ORDER BY terms put ahead of it.
Sequenced(rows, terms) ==
    LET n == Cardinality(rows)
    IN  {s \in [1..n -> rows] :
            /\ \A i, j \in 1..n : s[i] = s[j] => i = j
            /\ \A i, j \in 1..n : i < j => Ordering(terms, 1, s[i], s[j]) <= 0}

Min(a, b) == IF a < b THEN a ELSE b

\* The window of a sequence that LIMIT and OFFSET leave (None: no bound).
Window(s, lim, off) ==
    LET skip == IF off = None THEN 0 ELSE off.v.n
        last == IF lim = None THEN Len(s) ELSE Min(Len(s), skip + lim.v.n)
    IN  SubSeq(s, skip + 1, last)

\* session.exec(statement).all(): the row sequences the database may return
\* for the statement, or the error of a predicate.
fetch_all(stmt, rows) ==
    LET matched == exec(stmt, rows)
    IN  IF IsRaise(matched) THEN {matched}
        ELSE {Return(Window(s, stmt.limit, stmt.offset)) : s \in Sequenced(matched.v, stmt.order_by)}

\* SELECT count(pk) ... LIMIT 1 OFFSET 0 without ORDER BY, and .first():
\* the number of matched rows whose key is not NULL.
count_first(stmt, pk, rows) ==
    LET matched == exec(stmt, rows)
    IN  IF IsRaise(matched) THEN matched
        ELSE Return(Cardinality({r \in matched.v : r[pk].t # "null"}))

\* A stored scalar as the Python value the session hands back.
FromSql(cell) ==
    IF cell.t = "integer" THEN PyInt(cell.n)
    ELSE IF cell.t = "real" THEN PyFloat(cell.n)
    ELSE IF cell.t = "text" THEN PyStr(cell.s)
    ELSE PyNone

FromJson(m) ==
    CASE m.jt = "integer" -> PyInt(m.n)
      [] m.jt = "real" -> PyFloat(m.n)
      [] m.jt = "text" -> PyStr(m.s)
      [] m.jt = "true" -> PyBool(TRUE)
      [] m.jt = "false" -> PyBool(FALSE)
      [] OTHER -> PyNone

\* json.loads of a stored object: a dict of its members, objects within it
\* dicts again.  A stored text that is a JSON scalar (a member at the empty
\* path, such as null) loads as no dict.
RECURSIVE loads(_)
loads(doc) ==
    LET keys == {m.path[1] : m \in doc}
    IN  Object("dict",
               [key \in keys |->
                    IF \E m \in doc : m.path = <<key>>
                    THEN FromJson(CHOOSE m \in doc : m.path = <<key>>)
                    ELSE loads({Member(Tail(m.path), m.jt, m.n, m.s) :
                                    m \in {x \in doc : x.path[1] = key}})])

MetadataFields == {"email", "latitude", "longitude", "registered"}

\* NestedFilterable.process_result_value: a dict becomes the nested model,
\* Jsonable keeping every key and PersonMetadata needing each of its fields;
\* for NULL the call of the inherited method has an argument too many.
process_result_value(model, cell) ==
    IF cell.t # "json" \/ (\E m \in cell.doc : m.path = << >>) THEN TypeError
    ELSE LET value == loads(cell.doc) IN
         IF model = "Jsonable" THEN Return(Object("Jsonable", value.attrs))
         ELSE IF MetadataFields \subseteq DOMAIN value.attrs
         THEN Return(Object(model, [key \in MetadataFields |-> value.attrs[key]]))
         ELSE Raise("ValidationError")

\* The Person instance that the session builds from a row.
Load(r) ==
    LET loose == process_result_value("Jsonable", r.loose)
        strong == process_result_value("PersonMetadata", r.strong)
    IN  IF IsRaise(loose) THEN loose
        ELSE IF IsRaise(strong) THEN strong
        ELSE Return(Object("Person",
                           [id |-> FromSql(r.id), age |-> FromSql(r.age), name |-> FromSql(r.name),
                            loose |-> loose.v, strong |-> strong.v]))

\* The statement an extension sorter returns: the query ordered by a term of
\* its own.
custom(sorter, token) == [t |-> "custom", by |-> sorter.name, x |-> token]

\* sorter.sort(session, query, model, sorting): SimpleSorter as above; an
\* extension returns a statement for the tokens it handles and None for
\* any other.
Sorter_sort(sorter, stmt, model, token) ==
    IF sorter = SimpleSorter THEN SimpleSorter_sort(stmt, model, token)
    ELSE IF token \in sorter.handles THEN Return(order_by(stmt, custom(sorter, token)))
    ELSE Return(None)

\* The subclasses in the order in which they were defined.
sorts_Unsorted(sorters) == sorters

\* sorts = sorted(Sorter.__subclasses__(), key=priority): ascending priority number,
\* subclasses of equal priority in the order in which they were defined.
sorts(sorters) ==
    LET n == Len(sorters)
        before(i, j) == \/ sorters[i].priority < sorters[j].priority
                        \/ sorters[i].priority = sorters[j].priority /\ i < j
        rank(i) == 1 + Cardinality({j \in 1..n : before(j, i)})
    IN  [k \in 1..n |-> sorters[CHOOSE i \in 1..n : rank(i) = k]]

\* The loop over the sorters for one token (lines 123-126): the value of
\* the first sorter that returns one, None when none does.
RECURSIVE first_sorted(_, _, _, _, _)
first_sorted(ordered, j, stmt, model, token) ==
    IF j > Len(ordered) THEN Return(None)
    ELSE LET value == Sorter_sort(ordered[j], stmt, model, token)
         IN  IF IsRaise(value) THEN value
             ELSE IF value.v = None THEN first_sorted(ordered, j + 1, stmt, model, token)
             ELSE value

\* The loop of Paginator.exec over self.sorting (lines 117-126): _pk stands
\* for the primary key, and a token that no sorter returns a statement for
\* adds nothing.
RECURSIVE sort_from(_, _, _, _, _, _)
sort_from(ordered, stmt, model, pkey, sorting, i) ==
    IF i > Len(sorting) THEN Return(stmt)
    ELSE LET token == IF sorting[i] = <<"_pk">> THEN <<pkey>> ELSE sorting[i]
             value == first_sorted(ordered, 1, stmt, model, token)
         IN  IF IsRaise(value) THEN value
             ELSE IF value.v = None THEN sort_from(ordered, stmt, model, pkey, sorting, i + 1)
             ELSE sort_from(ordered, value.v, model, pkey, sorting, i + 1)

Pagination(count, params, filtered, results) ==
    [count |-> count, params |-> params, filters |-> filtered, results |-> results]

\* [model.remove(self.excludes) for model in ...]: Filterable has drop and
\* no attribute remove, so the first instance raises AttributeError.
removed(instances, excludes) ==
    IF instances # << >> THEN Raise("AttributeError") ELSE Return(<< >>)

\* What exec leaves: the statement after bind, the statement run for the
\* rows, the rows fetched, and the Pagination returned or the exception.
Outcome(bound, model_exec, model_rows, returned) ==
    [bound |-> bound, model_exec |-> model_exec, model_rows |-> model_rows, returned |-> returned]

\* The same with a failed count statement taken for a count of 0.
summarize_Partial(self, bound, sorted, model_exec, model_rows, meta_rows, results) ==
    IF IsRaise(results) THEN Outcome(bound, model_exec, model_rows, results)
    ELSE Outcome(bound, model_exec, model_rows,
                 Return(Pagination(IF IsRaise(meta_rows) THEN 0 ELSE meta_rows.v, self,
                                   IF sorted._filterables = None THEN RootModel(<< >>)
                                   ELSE sorted._filterables,
                                   results.v)))

\* Lines 138-143: the Pagination of the count, the filters the statement
\* carries (the empty Filters when it carries none) and the results.
summarize(self, bound, sorted, model_exec, model_rows, meta_rows, results) ==
    IF IsRaise(meta_rows) THEN Outcome(bound, model_exec, model_rows, meta_rows)
    ELSE IF IsRaise(results) THEN Outcome(bound, model_exec, model_rows, results)
    ELSE Outcome(bound, model_exec, model_rows,
                 Return(Pagination(meta_rows.v, self,
                                   IF sorted._filterables = None THEN RootModel(<< >>)
                                   ELSE sorted._filterables,
                                   results.v)))

\* Lines 130-143 for the instances loaded from one sequence of fetched rows.
paginate_loaded(self, bound, sorted, model_exec, model_rows, loaded, rows) ==
    IF \E i \in 1..Len(loaded) : IsRaise(loaded[i])
    THEN Outcome(bound, model_exec, << >>,
                 loaded[CHOOSE i \in 1..Len(loaded) : IsRaise(loaded[i])])
    ELSE summarize(self, bound, sorted, model_exec, model_rows,
                   count_first(model_exec, primary_key(Person), rows),
                   removed([i \in 1..Len(loaded) |-> loaded[i].v], self.excludes))

paginate(self, bound, sorted, model_exec, fetched, rows) ==
    IF IsRaise(fetched) THEN Outcome(bound, model_exec, << >>, fetched)
    ELSE paginate_loaded(self, bound, sorted, model_exec, fetched.v,
                         [i \in 1..Len(fetched.v) |-> Load(fetched.v[i])], rows)

\* Lines 129-130: the statement with LIMIT and OFFSET, run unless the limit
\* is 0.
paginate_exec(self, bound, sorted, model_exec, rows) ==
    {paginate(self, bound, sorted, model_exec, fetched, rows) :
        fetched \in IF self.limit > 0 THEN fetch_all(model_exec, rows) ELSE {Return(<< >>)}}

paginate_sorted(self, bound, sorted, rows) ==
    IF IsRaise(sorted) THEN {Outcome(bound, None, << >>, sorted)}
    ELSE paginate_exec(self, bound, sorted.v,
                       offset(limit(sorted.v, self.limit), self.offset), rows)

paginate_model(self, bound, model, rows) ==
    IF IsRaise(model) THEN {Outcome(bound, None, << >>, model)}
    ELSE paginate_sorted(self, bound,
                         sort_from(sorts(subclasses), bound.v, model.v, primary_key(model.v),
                                   self.sorting, 1), rows)

paginate_bound(self, bound, rows) ==
    IF IsRaise(bound) THEN {Outcome(bound, None, << >>, bound)}
    ELSE paginate_model(self, bound, from_query(bound.v), rows)

\* Paginator.exec(session, query, filters): the outcomes it can have, one
\* for each order in which the database may return the rows.
Paginator_exec(self, stmt, filtering, rows, dialct) ==
    paginate_bound(self,
                   IF filtering # None THEN bind(filtering.root, stmt, dialct) ELSE Return(stmt),
                   rows)

MaxLimit == 2
MaxOffset == 2
MaxTokens == 2

\* The people stored: three rows with distinct keys, each with a loose and
\* a strong document.
Stored(id, age, name) ==
    [id |-> Text(id), age |-> Integer(age), name |-> Text(name),
     loose |-> Json({Member(<<"a">>, "integer", 1, "")}),
     strong |-> Json({Member(<<"email">>, "text", 0, "e"), Member(<<"latitude">>, "real", 0, ""),
                      Member(<<"longitude">>, "real", 0, ""),
                      Member(<<"registered">>, "true", 0, "")})]
People == {Stored("a", 1, "n"), Stored("b", 0, "n"), Stored("c", 1, "m")}
PageTables == {rows \in SUBSET People : Cardinality(rows) <= MaxRows}

\* The filters given to exec: none, the empty document, one on age, and one
\* on a key within name, which holds no JSON.
PageFilters ==
    {None, RootModel(<< >>),
     RootModel(<<[key |-> <<"age">>, filter |-> Filter("FilterEquals", <<PyInt(1)>>)]>>),
     RootModel(<<[key |-> <<"name", ".", "k">>, filter |-> Filter("FilterHas", <<PyBool(TRUE)>>)]>>)}

PageTokens ==
    {<<"_pk">>, <<"name", ":", "desc">>, <<"age", " ", ":", "desc">>, <<"missing">>}
PageSortings == UNION {[1..n -> PageTokens] : n \in 1..MaxTokens}
PageExcludes == {<< >>, <<<<"name">>>>, <<<<"loose", ".", "a">>>>}

InitPage ==
    /\ subclasses = <<SimpleSorter>>
    /\ dialect = "sqlite"
    /\ column = Unset /\ children = << >> /\ filter = Unset
    /\ clause = Unset /\ row = Unset /\ verdict = Unset
    /\ leaf = Unset /\ http = 0 /\ document = << >>
    /\ query = Unset /\ result = Unset
    /\ parsed \in PageFilters
    /\ table \in PageTables
    /\ caller = select(Person)
    /\ PagerIdle

\* Paginator(limit, offset, sorting, excludes) with the sorting given, and
\* Paginator(limit, offset, excludes=excludes) with the default one.
Paginate ==
    /\ paginator = Unset
    /\ \E lim \in 0..MaxLimit, off \in 0..MaxOffset, excludes \in PageExcludes :
           \E sorting \in PageSortings \cup {DefaultSorting} :
               paginator' = Paginator(lim, off, sorting, excludes)
    /\ UNCHANGED <<subclasses, dialect, column, children, filter, clause, row, verdict, leaf, parsed,
                   http, document, table, query, result, caller, pagination, instance>>

\* pagination = paginator.exec(session, caller, parsed): query is the
\* statement run for the rows, result the rows fetched.
PaginatorExec ==
    /\ paginator # Unset /\ pagination = Unset
    /\ \E outcome \in Paginator_exec(paginator, caller, parsed, table, dialect) :
           /\ query' = outcome.model_exec
           /\ result' = outcome.model_rows
           /\ pagination' = outcome.returned
           /\ caller' = Afterwards(caller, outcome.bound)
    /\ UNCHANGED <<subclasses, dialect, column, children, filter, clause, row, verdict, leaf, parsed,
                   http, document, table, paginator, instance>>

\* Another session commits a write before exec takes its snapshot: a person
\* is stored or deleted.
Write ==
    /\ pagination = Unset
    /\ \E person \in People :
           table' = IF person \in table THEN table \ {person}
                    ELSE IF Cardinality(table) < MaxRows THEN table \cup {person}
                    ELSE table
    /\ UNCHANGED <<subclasses, dialect, column, children, filter, clause, row, verdict, leaf, parsed, http,
                   document, query, result, caller, paginator, pagination, instance>>

NextPage == Paginate \/ Write \/ PaginatorExec
SpecPage == InitPage /\ [][NextPage]_vars

\* ------------------------------------------------- claims on pagination

\* What the database answers to the statement of the filters alone.
Filtered ==
    IF parsed = None THEN Return(table)
    ELSE LET bound == bind(parsed.root, select(Person), dialect)
         IN  IF IsRaise(bound) THEN bound ELSE exec(bound.v, table)

\* The WHERE clause of the filters fails on a stored row.
Failing == IsRaise(Filtered)

\* exec has run, on statements the database can answer.
Paged == pagination # Unset /\ ~Failing
Returned == Paged /\ ~IsRaise(pagination)

\* The rows that the WHERE clause of the filters alone matches.
Matching == IF Failing THEN {} ELSE Filtered.v

\* The ORDER BY term a sort token asks for: its field ascending, or
\* descending when ":desc" follows; no term for a token that names no column.
TermOf(token) ==
    LET chunks == split_once(strip_whitespace(token), ":")
        name == IF chunks[1] = <<"_pk">> THEN "id" ELSE identifier(chunks[1])
        field == {f \in Person.fields : f.name = name}
    IN  IF field = {} THEN << >>
        ELSE IF Len(chunks) > 1 /\ lower_case(chunks[2]) = <<"desc">>
        THEN <<desc(CHOOSE f \in field : TRUE)>>
        ELSE <<asc(CHOOSE f \in field : TRUE)>>

RECURSIVE TermsFrom(_, _)
TermsFrom(sorting, i) ==
    IF i > Len(sorting) THEN << >> ELSE TermOf(sorting[i]) \o TermsFrom(sorting, i + 1)
Terms == TermsFrom(paginator.sorting, 1)

\* The pages that the matching rows have under the requested sort order.
Pages == {Window(s, Bind(PyInt(paginator.limit)), Bind(PyInt(paginator.offset))) :
             s \in Sequenced(Matching, Terms)}

\* The instances of the rows fetched.
Instances_of(rows) == [i \in 1..Len(rows) |-> Load(rows[i]).v]

\* C12: exec returns a Pagination whose count is the number of rows the
\* WHERE clause of the filters matches, whatever limit and offset are; with
\* limit 0 no row is fetched and results is empty.
C12_CountFaithful ==
    Paged =>
        /\ Returned
        /\ pagination.v.count = Cardinality(Matching)
        /\ paginator.limit = 0 => (result = << >> /\ pagination.v.results = << >>)

\* C13: results holds at most limit instances, those of the rows at
\* positions offset+1 .. offset+limit of the matching rows in sort order.
C13_PageWindow ==
    Paged =>
        /\ Returned
        /\ Len(pagination.v.results) <= paginator.limit
        /\ \E page \in Pages : pagination.v.results = Instances_of(page)

\* C14: a Paginator built without a sort has sorting ["_pk"], and exec
\* returns the matching rows in ascending order of the primary key.
C14_DefaultSort ==
    (Paged /\ paginator.sorting = DefaultSorting) =>
        /\ query.order_by = <<asc(Column("id", "AutoString"))>>
        /\ Returned
        /\ Len(pagination.v.results) = Len(result)
        /\ \A i, j \in 1..Len(pagination.v.results) :
               i < j => Collate(pagination.v.results[i].attrs.id.s)
                            < Collate(pagination.v.results[j].attrs.id.s)

\* C15: the statement run has one ORDER BY term for each sort token that
\* names a column, in token order, descending for ":desc" and ascending
\* otherwise, and the results come in that lexicographic order.
C15_OrderByTerms ==
    Paged =>
        /\ query.order_by = Terms
        /\ Returned
        /\ Len(pagination.v.results) = Len(result)
        /\ \A i, j \in 1..Len(result) : i < j => Ordering(Terms, 1, result[i], result[j]) <= 0

\* C18: with the one exclude "name", every returned instance is the loaded
\* one with name None and every other field as loaded.
C18_RootFieldNulled ==
    (Paged /\ paginator.excludes = <<<<"name">>>>) =>
        /\ Returned
        /\ pagination.v.results =
               [i \in 1..Len(result) |->
                    [Instances_of(result)[i] EXCEPT !.attrs.name = PyNone]]

\* What does hold: whenever exec returns, no row was in the window, and the
\* count is that of the matching rows.
Page_ReturnsOnlyEmpty ==
    Returned => /\ result = << >> /\ pagination.v.results = << >>
                /\ pagination.v.count = Cardinality(Matching)

\* Filterable.drop itself, given the one path "name": name is None and the
\* other fields are as they were.
Drop_RootFieldNulled ==
    [][ExcludedOnly(<<"name">>)' =>
          instance' = [instance EXCEPT !.attrs.name = PyNone]]_vars

\* C21: with a list of excludes, exec returns the count of the matching
\* rows and a page of them in sort order, as without excludes; the instances
\* returned are those loaded with the excluded paths dropped.
C21_ExcludeCosmetic ==
    (Paged /\ paginator.excludes # << >>) =>
        /\ Returned
        /\ pagination.v.count = Cardinality(Matching)
        /\ \E page \in Pages :
               pagination.v.results =
                   [i \in 1..Len(page) |-> drop(Instances_of(page)[i], paginator.excludes).self]

\* No step of exec writes to the database.
Page_TableUnchanged == [][pagination' # pagination => table' = table]_vars

\* C22: when the rows statement or the count statement fails, exec raises
\* the error of the database; it returns no Pagination and holds no rows.
C22_FailurePropagates ==
    (pagination # Unset /\ Failing) =>
        /\ pagination = Raise("OperationalError")
        /\ result = << >>

\* The count statement alone was run, and failed.
C22_Witness ==
    /\ pagination # Unset /\ Failing
    /\ paginator.limit = 0
    /\ pagination = Raise("OperationalError")

\* ------------------------------------------------- the JSON type registry

\* The arguments given to get_json_type_for_value: every dialect, a name
\* that is none and None; every comparable, None and a list.
TypeDialects == {PyStr(d) : d \in Dialects \cup {"db2", ""}} \cup {PyNone}
TypeValues == Comparables \cup {PyNone, [kind |-> "list", n |-> 0, s |-> ""]}

InitTypes ==
    /\ subclasses = <<SimpleSorter>>
    /\ dialect = "sqlite"
    /\ column = Unset /\ children = << >> /\ filter = Unset
    /\ clause = Unset /\ row = Unset /\ verdict = Unset
    /\ parsed = Unset /\ http = 0
    /\ document = << >> /\ table = {} /\ query = Unset /\ result = Unset
    /\ caller = Unset /\ PagerIdle
    /\ leaf \in [dialect : TypeDialects, value : TypeValues]

\* result = get_json_type_for_value(dialect, value)
GetJsonType ==
    /\ result = Unset
    /\ result' = get_json_type_for_value(leaf.dialect, leaf.value)
    /\ UNCHANGED <<subclasses, dialect, column, children, filter, clause, row, verdict, leaf, parsed,
                   http, document, table, query, caller, paginator, pagination, instance>>

NextTypes == GetJsonType
SpecTypes == InitTypes /\ [][NextTypes]_vars

\* The token table as stated, by dialect name and kind.
JsonTokens(name, kind) ==
    IF name = "sqlite"
    THEN CASE kind = "bool" -> <<"true", "false">>
           [] kind = "float" -> <<"real">>
           [] kind = "int" -> <<"integer">>
           [] kind = "str" -> <<"text">>
    ELSE IF name \in {"mysql", "mariadb"}
    THEN CASE kind = "bool" -> <<"BOOLEAN">>
           [] kind = "float" -> <<"DOUBLE">>
           [] kind = "int" -> <<"INTEGER">>
           [] kind = "str" -> <<"STRING">>
    ELSE CASE kind = "bool" -> <<"boolean">>
           [] kind \in {"float", "int"} -> <<"number">>
           [] kind = "str" -> <<"string">>

Registered ==
    /\ leaf.dialect.kind = "str"
    /\ leaf.dialect.s \in {"sqlite", "mysql", "mariadb", "postgresql", "mssql", "oracle"}
    /\ leaf.value.kind \in {"bool", "float", "int", "str"}

\* C23: get_json_type_for_value returns the token list stated for the
\* dialect and the kind of the value, a bool being of kind bool, and raises
\* for any other dialect or value.
C23_JsonTypes ==
    (leaf # Unset /\ result # Unset) =>
        IF Registered THEN result = Return(JsonTokens(leaf.dialect.s, leaf.value.kind))
        ELSE IsRaise(result) /\ result.exc = "ValueError"

\* A bool was looked up on a dialect whose int tokens differ from its bool
\* tokens.
C23_Witness ==
    /\ leaf # Unset /\ result # Unset
    /\ leaf.dialect = PyStr("postgresql") /\ leaf.value = PyBool(TRUE)
    /\ result = Return(<<"boolean">>)

\* The rows of the snapshot that the WHERE clause of the rows statement
\* selects.
Selected == {r \in table : \A i \in 1..Len(query.where) : Selects(query.where[i], r)}

\* C24: exec returns a count and results taken from one snapshot with one
\* WHERE clause: count is the number of rows the clause selects, results a
\* window of them, and offset + len(results) <= count when results is not
\* empty.
C24_SnapshotConsistent ==
    Paged =>
        /\ Returned
        /\ pagination.v.count = Cardinality(Selected)
        /\ pagination.v.results = Instances_of(result)
        /\ \E s \in Sequenced(Selected, query.order_by) :
               result = Window(s, query.limit, query.offset)
        /\ result # << >> => paginator.offset + Len(result) <= pagination.v.count

\* ------------------------------------------------- claims on the guard

\* C25: over a nested path create_chain returns CASE WHEN G THEN comparison
\* ELSE FALSE END, G testing the JSON type for membership in the tokens of
\* the dialect and the kind of the comparable; over a root path it returns
\* no CASE.
C25_GuardedChain ==
    (Compiled /\ HasKind(filter)) =>
        /\ ~IsRaise(clause)
        /\ IF Nested
           THEN /\ ChainResult.t = "case"
                /\ ChainResult.when.t = "in"
                /\ ChainResult.when.xs =
                       [i \in 1..Len(JsonTokens(dialect, KindOf(filter))) |->
                            Bind(PyStr(JsonTokens(dialect, KindOf(filter))[i]))]
                /\ ChainResult.else_ = text("FALSE")
           ELSE ChainResult.t # "case"

\* What does hold: a root path never gets a CASE, and a nested path gets a
\* CASE only when its comparable is a string that names a dialect.
Guard_OnlyForDialectNames ==
    (Compiled /\ HasKind(filter)) =>
        /\ ~Nested => (~IsRaise(clause) /\ ChainResult.t # "case")
        /\ Nested => IF KindOf(filter) = "str" /\ filter.value[1].s \in Dialects
                     THEN ChainResult.t = "case"
                     ELSE clause = Raise("ValueError")

\* ------------------------------------------------- registered sorters

MaxSorters == 2

\* Extensions an application may define: subclasses of Sorter with a
\* priority before, equal to or after that of SimpleSorter.
Extensions ==
    {[name |-> "First", priority |-> 1,
      handles |-> {<<"name", ":", "desc">>, <<"missing">>}],
     [name |-> "Equal", priority |-> 999, handles |-> {<<"id">>, <<"missing">>}],
     [name |-> "Last", priority |-> 1000,
      handles |-> {<<"age", ":", "desc">>, <<"missing">>}]}

InitRegistry ==
    /\ subclasses = <<SimpleSorter>>
    /\ dialect = "sqlite"
    /\ column = Unset /\ children = << >> /\ filter = Unset
    /\ clause = Unset /\ row = Unset /\ verdict = Unset
    /\ leaf = Unset /\ http = 0 /\ document = << >>
    /\ query = Unset /\ result = Unset
    /\ parsed = None
    /\ table = {}
    /\ caller = select(Person)
    /\ PagerIdle

\* class X(Sorter): a subclass is defined, after those defined before.
Subclass ==
    /\ pagination = Unset
    /\ Len(subclasses) <= MaxSorters
    /\ \E sorter \in Extensions :
           /\ \A i \in 1..Len(subclasses) : subclasses[i] # sorter
           /\ subclasses' = Append(subclasses, sorter)
    /\ UNCHANGED <<dialect, column, children, filter, clause, row, verdict, leaf, parsed, http,
                   document, table, query, result, caller, paginator, pagination, instance>>

NextRegistry == Subclass \/ Paginate \/ PaginatorExec
SpecRegistry == InitRegistry /\ [][NextRegistry]_vars

\* The subclasses that return a statement for a token, and the one of them
\* that is to be applied: of the lowest priority number, the one defined
\* first among equals.
Takers(stmt, token) ==
    {i \in 1..Len(subclasses) : Sorter_sort(subclasses[i], stmt, Person, token).v # None}
Winner(stmt, token) ==
    CHOOSE i \in Takers(stmt, token) :
        \A j \in Takers(stmt, token) :
            \/ subclasses[i].priority < subclasses[j].priority
            \/ subclasses[i].priority = subclasses[j].priority /\ i <= j

\* The statement after the tokens from the i-th on, each applied by its
\* winner alone and skipped when it has no taker.
RECURSIVE AppliedFrom(_, _)
AppliedFrom(stmt, i) ==
    IF i > Len(paginator.sorting) THEN stmt
    ELSE LET token == IF paginator.sorting[i] = <<"_pk">> THEN <<"id">> ELSE paginator.sorting[i]
         IN  IF Takers(stmt, token) = {} THEN AppliedFrom(stmt, i + 1)
             ELSE AppliedFrom(Sorter_sort(subclasses[Winner(stmt, token)], stmt, Person, token).v,
                              i + 1)

\* C26: for each sort token in turn exec applies the one sorter of lowest
\* priority number that returns a statement for it, no sorter after that
\* one, and leaves the statement as it is when no sorter returns one.
C26_FirstSorterWins ==
    (pagination # Unset /\ query # None) =>
        LET applied == AppliedFrom(caller, 1)
        IN  /\ query.where = applied.where
            /\ query.order_by = applied.order_by

\* An extension of priority 1 took a token that SimpleSorter handles too.
C26_Witness ==
    /\ pagination # Unset /\ query # None
    /\ Len(subclasses) > 1
    /\ paginator.sorting = <<<<"name", ":", "desc">>>>
    /\ query.order_by = <<custom(subclasses[2], <<"name", ":", "desc">>)>>
    /\ subclasses[2].priority < SimpleSorter.priority

\* ------------------------------------------------- JSON path references

MaxSegments == 2
\* The segment names tried: two plain names and the name that is one
\* double quote.
SegmentNames == {"k", "j", Quote}

RECURSIVE Tuples(_, _)
\* The sequences of n members of S.
Tuples(S, n) ==
    IF n = 0 THEN {<< >>}
    ELSE {Append(t, x) : t \in Tuples(S, n - 1), x \in S}

InitRef ==
    /\ subclasses = <<SimpleSorter>>
    /\ dialect \in Dialects
    /\ column = Column("loose", "JSON")
    /\ \E n \in 0..MaxSegments : children \in Tuples(SegmentNames, n)
    /\ filter = Unset /\ clause = Unset /\ row = Unset /\ verdict = Unset
    /\ CompilerIdle /\ PagerIdle

\* result = get_value_ref(column, children, dialect)
GetValueRef ==
    /\ result = Unset
    /\ result' = get_value_ref(column, children, dialect)
    /\ UNCHANGED <<subclasses, dialect, column, children, filter, clause, row, verdict, leaf,
                   parsed, http, document, table, query, caller, paginator, pagination,
                   instance>>

NextRef == GetValueRef
SpecRef == InitRef /\ [][NextRef]_vars

Referenced == column = Column("loose", "JSON") /\ result # Unset
HasQuote == \E i \in 1..Len(children) : children[i] = Quote
\* The path string handed to the JSON function, where one is emitted.
Emitted == result.t = "func" /\ result.args[2].t = "path"

\* C27: get_value_ref rejects child segments that contain a double quote
\* with InvalidSegment, and every path string it emits reads back as the
\* segments it was built from.
C27_QuoteRejected ==
    Referenced =>
        IF HasQuote THEN IsRaise(result) /\ result.exc = "InvalidSegment"
        ELSE Emitted =>
                 LET p == ParsePath(result.args[2].tokens) IN
                 p.ok /\ p.steps = [i \in 1..Len(children) |-> <<children[i]>>]

\* What does hold: no call raises, and a path built from segments without a
\* double quote reads back as those segments.
Ref_PlainSegmentsRoundTrip ==
    Referenced =>
        /\ ~IsRaise(result)
        /\ (Emitted /\ ~HasQuote) =>
               LET p == ParsePath(result.args[2].tokens) IN
               p.ok /\ p.steps = [i \in 1..Len(children) |-> <<children[i]>>]

\* A quoted segment closes its own quotes: the emitted path is malformed or
\* names other segments.
Ref_QuoteBreaksPath ==
    (Referenced /\ HasQuote /\ Emitted) =>
        LET p == ParsePath(result.args[2].tokens) IN
        ~p.ok \/ p.steps # [i \in 1..Len(children) |-> <<children[i]>>]

\* ------------------------------------------------- claims on empty lists

EmptyList == Compiled /\ filter.cls \in {"FilterIn", "FilterNotIn"} /\ filter.value = << >>

\* C28: $in and $nin over an empty list compile without raising, to a
\* membership test over no elements.
C28_EmptyListCompiles ==
    EmptyList =>
        /\ ~IsRaise(clause)
        /\ ChainResult.t = "in" /\ ChainResult.xs = << >>

\* What does hold: the first element is read before anything is built, so
\* an empty list raises IndexError over every column, path and dialect.
In_EmptyListRaises == EmptyList => clause = Raise("IndexError")

\* ------------------------------------------------- claims on $between

Between == Compiled /\ filter.cls = "FilterBetween"

\* The bound parameter as the caster for kind k leaves it on the dialect.
CastFor(kind, bound) ==
    IF dialect = "postgresql"
    THEN func("cast", <<Bind(bound), text(IF kind = "float" THEN "Float" ELSE "Integer")>>)
    ELSE Bind(bound)

\* The two comparisons of $between, both bounds cast for kind k.
BoundedFor(kind, comparison) ==
    /\ comparison.t = "and"
    /\ comparison.a.t = "cmp" /\ comparison.a.op = ">"
    /\ comparison.a.r = CastFor(kind, lower(filter))
    /\ comparison.b.t = "cmp" /\ comparison.b.op = "<"
    /\ comparison.b.r = CastFor(kind, upper(filter))

\* C30: $between takes the kind of its lower bound for the pre-check, the
\* guard tokens and the cast, whatever the kind of its upper bound.
C30_LowerBoundKind ==
    Between =>
        LET kind == lower(filter).kind IN
        /\ ~IsRaise(clause)
        /\ IF Nested
           THEN /\ clause.t = "case"
                /\ clause.when.t = "in"
                /\ clause.when.xs =
                       [i \in 1..Len(JsonTokens(dialect, kind)) |->
                            Bind(PyStr(JsonTokens(dialect, kind)[i]))]
                /\ BoundedFor(kind, clause.then)
           ELSE IF column.type \in ColumnTypesFor(kind)
                THEN BoundedFor(kind, clause)
                ELSE clause = literal(FALSE)

\* What does hold: over a root path the pre-check and the cast follow the
\* lower bound alone, and over a nested path the outcome is the ValueError
\* of the type lookup, whatever the upper bound.
Between_RootLowerKind ==
    Between =>
        LET kind == lower(filter).kind IN
        IF Nested THEN IsRaise(clause) /\ clause.exc = "ValueError"
        ELSE IF column.type \in ColumnTypesFor(kind)
             THEN BoundedFor(kind, clause)
             ELSE clause = literal(FALSE)

\* An int lower bound and a float upper bound over a float root column.
Between_MixedOverFloat ==
    /\ Between /\ ~Nested
    /\ lower(filter).kind = "int" /\ upper(filter).kind = "float"
    /\ column.type = "Float"
    /\ clause = literal(FALSE)

\* ------------------------------------------------- sorting by nullable fields

\* People whose loose column holds a document, SQL NULL, and the JSON text
\* null.
NullText == Json({Member(<< >>, "null", 0, "")})
Nullables ==
    {Stored("a", 1, "n"),
     [Stored("b", 0, "n") EXCEPT !.loose = Null],
     [Stored("c", 1, "m") EXCEPT !.loose = NullText]}
NullTokens == {<<"_pk">>, <<"loose">>, <<"loose", ":", "desc">>}

InitNulls ==
    /\ subclasses = <<SimpleSorter>>
    /\ dialect = "sqlite"
    /\ column = Unset /\ children = << >> /\ filter = Unset
    /\ clause = Unset /\ row = Unset /\ verdict = Unset
    /\ leaf = Unset /\ http = 0 /\ document = << >>
    /\ query = Unset /\ result = Unset
    /\ parsed = None
    /\ table \in {rows \in SUBSET Nullables : Cardinality(rows) <= MaxRows}
    /\ caller = select(Person)
    /\ PagerIdle

\* Paginator(limit, offset, sorting) over the tokens that name the primary
\* key and the nested column.
PaginateNullable ==
    /\ paginator = Unset
    /\ \E lim \in 0..MaxLimit, off \in 0..MaxOffset, n \in 1..MaxTokens :
           \E sorting \in [1..n -> NullTokens] :
               paginator' = Paginator(lim, off, sorting, << >>)
    /\ UNCHANGED <<subclasses, dialect, column, children, filter, clause, row, verdict, leaf, parsed,
                   http, document, table, query, result, caller, pagination, instance>>

NextNulls == PaginateNullable \/ PaginatorExec
SpecNulls == InitNulls /\ [][NextNulls]_vars

\* The fields of the sort tokens applied.
SortFields ==
    {TermOf(paginator.sorting[i])[1].x :
         i \in {j \in 1..Len(paginator.sorting) : TermOf(paginator.sorting[j]) # << >>}}
IsNullCell(cell) == cell.t = "null" \/ cell = NullText
\* The WHERE clause holds a non-null guard on the field.
GuardedOn(field) ==
    \E i \in 1..Len(query.where) :
        query.where[i] \in {Not(is_(field)), Cmp("!=", field, text("'null'"))}

\* C29: every applied sort token adds a non-null guard on its field, and no
\* row whose sort field is NULL, or JSON null for a nested field, is fetched
\* or counted.
C29_NullSortFieldDropped ==
    (pagination # Unset /\ query # None) =>
        /\ \A field \in SortFields : GuardedOn(field)
        /\ \A i \in 1..Len(result) : \A field \in SortFields : ~IsNullCell(result[i][field.name])
        /\ ~IsRaise(pagination) =>
               pagination.v.count =
                   Cardinality({r \in table : \A field \in SortFields : ~IsNullCell(r[field.name])})

\* What does hold: the guard is there for every applied token, and rows
\* whose sort field is SQL NULL are neither fetched nor counted.
Nulls_SqlNullDropped ==
    (pagination # Unset /\ query # None) =>
        /\ \A field \in SortFields : GuardedOn(field)
        /\ \A i \in 1..Len(result) : \A field \in SortFields : result[i][field.name].t # "null"
        /\ ~IsRaise(pagination) =>
               pagination.v.count =
                   Cardinality({r \in table : \A field \in SortFields : r[field.name].t # "null"})

\* The count follows the sorting list: the same table counts one row less
\* once loose is sorted by.
Nulls_CountFollowsSorting ==
    /\ pagination # Unset /\ ~IsRaise(pagination)
    /\ \E r \in table : r.loose = Null
    /\ paginator.sorting = <<<<"loose">>>>
    /\ pagination.v.count = Cardinality(table) - 1

====
